---- MODULE Spec2Model ----
(***************************************************************************)
(* Aho-Corasick multi-pattern search (dstilesr/aho-corasick).              *)
(*                                                                         *)
(* The model follows src/src/trie.rs (construction of the prefix tree,     *)
(* failure links, dictionary links) and src/src/trie/search.rs (the scan). *)
(*                                                                         *)
(* Characters are Unicode scalar values, written as their code points:     *)
(*    97  'a'  LATIN SMALL LETTER A                                        *)
(*   193  'A'' LATIN CAPITAL LETTER A WITH ACUTE   (lower case: 225)       *)
(*   225  'a'' LATIN SMALL LETTER A WITH ACUTE     (NFC of 97 769)         *)
(*   769       COMBINING ACUTE ACCENT              (not alphanumeric)      *)
(* Strings are sequences of code points; String's Ord is the lexicographic *)
(* order of the code points.  Option<T> is a sequence of length 0 (None)   *)
(* or 1 (Some(x)).  Node identifiers are 0-based as in the source; node id *)
(* lives at position id + 1 of the sequence nodes.                         *)
(***************************************************************************)
EXTENDS Integers, Sequences, FiniteSets, TLC

\* ------------------------------------------------------------------ bounds

\* Largest size of an input dictionary: one per entry, plus the characters of
\* its patterns as stored (normalized), plus the characters of its keywords.
MaxDictCost == 6

\* Largest size, counted the same way, of a dictionary whose tree is used to scan.
MaxScanDictCost == 5

\* Largest number of characters of a scanned text.
MaxTextLen == 3

\* Largest size of a dictionary whose tree is scanned more than once, and
\* largest number of characters of the texts of the later scans.
MaxRepeatDictCost == 3

MaxRepeatTextLen == 2

\* Largest number of scans of one tree, one after the other.
MaxScans == 2

\* Number of threads scanning one tree at the same time.
NumScanners == 2

\* Largest number of items given to parallel_apply.
MaxItems == 17

\* Largest value of std::thread::available_parallelism.
MaxParallelism == 17

\* Largest thread count a caller asks parallel_apply for.
MaxThreadsArg == 4

\* Termination is checked on dictionaries of cost at most MaxLiveDictCost.
MaxLiveDictCost == 3

\* The CLI reads dictionary files of at most MaxFileLines lines, each of at
\* most MaxLineLen characters.
MaxFileLines == 2
MaxLineLen == 3
\* RingBuffer: capacities 0..MaxCapacity, at most MaxPushes pushes
MaxCapacity == 3
MaxPushes == 5

\* ------------------------------------------------------------------ characters and strings

Alphabet == {97, 193, 225, 769}

None == << >>

Some(x) == << x >>

IsSome(o) == Len(o) = 1

Unwrap(o) == o[1]

\* char::is_alphanumeric on the alphabet
IsAlphanumeric(c) == c \in {97, 193, 225}

IsWordChar(c) == IsAlphanumeric(c) \/ c = 95

\* char::to_lowercase on the alphabet
ToLowerChar(c) == IF c = 193 THEN 225 ELSE c

\* String::to_lowercase
ToLowercase(s) == [i \in 1..Len(s) |-> ToLowerChar(s[i])]

\* UnicodeNormalization::nfc: canonical composition.  On the alphabet the only
\* primary composite is 97 769 -> 225; 193 769 and 225 769 do not compose.
RECURSIVE Nfc(_)
Nfc(s) ==
    IF Len(s) = 0 THEN << >>
    ELSE IF Len(s) >= 2 /\ s[1] = 97 /\ s[2] = 769
         THEN <<225>> \o Nfc(SubSeq(s, 3, Len(s)))
         ELSE <<s[1]>> \o Nfc(Tail(s))

\* Ord for String: lexicographic on the scalar values
RECURSIVE StrLess(_, _)
StrLess(s, t) ==
    IF Len(t) = 0 THEN FALSE
    ELSE IF Len(s) = 0 THEN TRUE
    ELSE IF s[1] # t[1] THEN s[1] < t[1]
    ELSE StrLess(Tail(s), Tail(t))

\* Ord for Option<String>: None < Some(_)
OptLess(o, p) ==
    IF ~IsSome(p) THEN FALSE
    ELSE IF ~IsSome(o) THEN TRUE
    ELSE StrLess(Unwrap(o), Unwrap(p))

\* Ord for (String, Option<String>)
EntryLess(e, f) ==
    StrLess(e[1], f[1]) \/ (e[1] = f[1] /\ OptLess(e[2], f[2]))

\* Vec::sort on the dictionary (stable; equal entries are identical)
RECURSIVE InsertSorted(_, _)
InsertSorted(e, d) ==
    IF Len(d) = 0 THEN <<e>>
    ELSE IF EntryLess(e, d[1]) THEN <<e>> \o d
    ELSE <<d[1]>> \o InsertSorted(e, Tail(d))

RECURSIVE SortDictionary(_)
SortDictionary(d) ==
    IF Len(d) = 0 THEN << >>
    ELSE InsertSorted(d[1], SortDictionary(Tail(d)))

\* ------------------------------------------------------------------ inputs

RECURSIVE StringsUpTo(_)
StringsUpTo(n) ==
    IF n = 0 THEN {<< >>}
    ELSE LET shorter == StringsUpTo(n - 1)
         IN  shorter \cup {<<c>> \o s : c \in Alphabet, s \in {t \in shorter : Len(t) = n - 1}}

\* The strings whose normalized form has exactly n characters: a character
\* of the normalized form comes from one character, or from 97 769.
RECURSIVE PatternsOfLen(_)
PatternsOfLen(n) ==
    IF n = 0 THEN {<< >>}
    ELSE {s \in {u \o t : u \in {<<c>> : c \in Alphabet} \cup {<<97, 769>>},
                          t \in PatternsOfLen(n - 1)} : Len(Nfc(s)) = n}

\* Keywords a caller may supply with a pattern.
Keywords == {None, Some(<<193>>)}

KeywordCost(kw) == IF IsSome(kw) THEN Len(Unwrap(kw)) ELSE 0

\* The entries of cost exactly c.
EntriesOfCost(c) ==
    UNION {PatternsOfLen(c - 1 - KeywordCost(kw)) \X {kw} :
              kw \in {k \in Keywords : KeywordCost(k) <= c - 1}}

\* The dictionaries (sequences of entries, in any order) of cost at most b.
RECURSIVE DictionariesWithin(_)
DictionariesWithin(b) ==
    {<< >>} \cup UNION {{<<e>> \o d : e \in EntriesOfCost(c), d \in DictionariesWithin(b - c)} :
                           c \in 1..b}

Texts == StringsUpTo(MaxTextLen)

OptionsSet == [case_sensitive : BOOLEAN, check_bounds : BOOLEAN]

\* ------------------------------------------------------------------ nodes and links

\* The length below which follow_link scans the edge list linearly.
LinearSearchLimit == 8

DefaultNode ==
    [value |-> None, keyword |-> None, nxt |-> << >>,
     fail_to |-> None, dct_to |-> None, pattern_len |-> 0]

NewNode(value, keyword) ==
    IF ~IsSome(value) THEN DefaultNode
    ELSE [keyword |-> Some(IF IsSome(keyword) THEN Unwrap(keyword) ELSE Unwrap(value)),
          value |-> value,
          nxt |-> << >>,
          fail_to |-> None,
          dct_to |-> None,
          pattern_len |-> Len(Unwrap(value))]

\* A link is <<character, node id>>; Ord for Link is lexicographic.
LinkLess(l, m) == l[1] < m[1] \/ (l[1] = m[1] /\ l[2] < m[2])

RECURSIVE InsertLink(_, _)
InsertLink(l, links) ==
    IF Len(links) = 0 THEN <<l>>
    ELSE IF LinkLess(l, links[1]) THEN <<l>> \o links
    ELSE <<links[1]>> \o InsertLink(l, Tail(links))

\* A sort that leaves the links in the order they were added
SortLinksAsAdded(links) == links

RECURSIVE SortLinks(_)
SortLinks(links) ==
    IF Len(links) = 0 THEN << >>
    ELSE InsertLink(links[1], SortLinks(Tail(links)))

\* slice::binary_search_by_key as the standard library computes it: the
\* position (1-based) of an element with the key, or 0.
RECURSIVE BinarySearchFrom(_, _, _, _)
BinarySearchFrom(links, ch, base, size) ==
    IF size > 1
    THEN LET half == size \div 2
             mid == base + half
         IN  BinarySearchFrom(links, ch,
                              IF links[mid + 1][1] > ch THEN base ELSE mid,
                              size - half)
    ELSE IF links[base + 1][1] = ch THEN base + 1 ELSE 0

BinarySearch(links, ch) ==
    IF Len(links) = 0 THEN 0 ELSE BinarySearchFrom(links, ch, 0, Len(links))

\* Node::follow_link: Option<NodeId>
FollowLink(node, ch) ==
    IF Len(node.nxt) < LinearSearchLimit
    THEN LET hits == {i \in 1..Len(node.nxt) : node.nxt[i][1] = ch}
         IN  IF hits = {} THEN None
             ELSE Some(node.nxt[CHOOSE i \in hits : \A j \in hits : i <= j][2])
    ELSE LET i == BinarySearch(node.nxt, ch)
         IN  IF i = 0 THEN None ELSE Some(node.nxt[i][2])

\* Node::value_keyword: Some((value, keyword)) iff both are present
ValueKeyword(node) ==
    IF IsSome(node.value) /\ IsSome(node.keyword)
    THEN Some(<<Unwrap(node.value), Unwrap(node.keyword)>>)
    ELSE None

RootNodeId == 0

\* TrieRoot::add_link: Err(InvalidNodeId) when an end is out of bounds
AddLink(ns, from, to, c, fail_link) ==
    IF to >= Len(ns) THEN [nodes |-> ns, result |-> "InvalidNodeId"]
    ELSE IF from >= Len(ns) THEN [nodes |-> ns, result |-> "InvalidNodeId"]
    ELSE IF fail_link
         THEN [nodes |-> [ns EXCEPT ![from + 1].fail_to = Some(to)], result |-> "Ok"]
         ELSE [nodes |-> [ns EXCEPT ![from + 1].nxt = Append(@, <<c, to>>)],
               result |-> "Ok"]

\* The loop of TrieRoot::add_pattern from character i on, standing at current_id.
RECURSIVE AddPatternFrom(_, _, _, _, _)
AddPatternFrom(ns, current_id, characters, i, kw) ==
    IF i > Len(characters) THEN [nodes |-> ns, result |-> "Ok"]
    ELSE IF current_id >= Len(ns) THEN [nodes |-> ns, result |-> "panic"]
    ELSE LET c == characters[i]
             found == FollowLink(ns[current_id + 1], c)
         IN  IF IsSome(found)
             THEN AddPatternFrom(ns, Unwrap(found), characters, i + 1, kw)
             ELSE LET node == IF i = Len(characters)
                              THEN NewNode(Some(characters), kw)
                              ELSE NewNode(None, None)
                      added == Append(ns, node)
                      node_id == Len(added) - 1
                      linked == AddLink(added, current_id, node_id, c, FALSE)
                  IN  IF linked.result # "Ok" THEN linked
                      ELSE AddPatternFrom(linked.nodes, node_id, characters, i + 1, kw)

\* TrieRoot::add_pattern
AddPattern(ns, mpl, new_item, kw) ==
    LET characters == Nfc(new_item)
        walked == AddPatternFrom(ns, RootNodeId, characters, 1, kw)
    IN  [nodes |-> walked.nodes,
         max_pattern_len |-> IF Len(characters) > mpl THEN Len(characters) ELSE mpl,
         result |-> walked.result]

\* The loop of TrieRoot::node_by_path from character i on, standing at current.
\* panic: get_node(current).unwrap() on an identifier out of bounds.
RECURSIVE NodeByPathFrom(_, _, _, _)
NodeByPathFrom(ns, current, p, i) ==
    IF i > Len(p) THEN [node_id |-> Some(current), result |-> "Ok"]
    ELSE IF current >= Len(ns) THEN [node_id |-> None, result |-> "panic"]
    ELSE LET nid == FollowLink(ns[current + 1], p[i])
         IN  IF IsSome(nid) THEN NodeByPathFrom(ns, Unwrap(nid), p, i + 1)
             ELSE [node_id |-> None, result |-> "Ok"]

\* A node_by_path without the test for the empty path
NodeByPathFromRoot(ns, p) == NodeByPathFrom(ns, RootNodeId, p, 1)

\* TrieRoot::node_by_path: Option<NodeId>
NodeByPath(ns, p) ==
    IF Len(p) = 0 THEN [node_id |-> None, result |-> "Ok"]
    ELSE NodeByPathFrom(ns, RootNodeId, p, 1)

\* ------------------------------------------------------------------ failure links

\* The probe loop without the stop at the root: the root has no failure link.
RECURSIVE ProbeFailureNoRootStop(_, _, _, _)
ProbeFailureNoRootStop(ns, current_id, check_id, edge_char) ==
    IF check_id >= Len(ns) THEN [nodes |-> ns, result |-> "InvalidNodeId"]
    ELSE LET check == ns[check_id + 1]
             found == FollowLink(check, edge_char)
         IN  IF IsSome(found)
             THEN AddLink(ns, current_id, Unwrap(found), 0, TRUE)
             ELSE IF IsSome(check.fail_to)
                  THEN ProbeFailureNoRootStop(ns, current_id, Unwrap(check.fail_to),
                                              edge_char)
                  ELSE [nodes |-> ns, result |-> "MissingLink"]

\* The probe loop giving up after the first node probed: when that node has
\* no edge on edge_char the failure link goes to the root.
ProbeFailureOneStep(ns, current_id, check_id, edge_char) ==
    IF check_id >= Len(ns) THEN [nodes |-> ns, result |-> "InvalidNodeId"]
    ELSE LET found == FollowLink(ns[check_id + 1], edge_char)
         IN  IF IsSome(found)
             THEN AddLink(ns, current_id, Unwrap(found), 0, TRUE)
             ELSE AddLink(ns, current_id, RootNodeId, edge_char, TRUE)

\* The probe loop of compute_failure_links: follow the failure chain from
\* check_id until a node with an edge on edge_char, or the root, is found.
RECURSIVE ProbeFailure(_, _, _, _)
ProbeFailure(ns, current_id, check_id, edge_char) ==
    IF check_id >= Len(ns) THEN [nodes |-> ns, result |-> "InvalidNodeId"]
    ELSE LET check == ns[check_id + 1]
             found == FollowLink(check, edge_char)
         IN  IF IsSome(found)
             THEN AddLink(ns, current_id, Unwrap(found), 0, TRUE)
             ELSE IF check_id = RootNodeId
                  THEN AddLink(ns, current_id, check_id, edge_char, TRUE)
                  ELSE IF IsSome(check.fail_to)
                       THEN ProbeFailure(ns, current_id, Unwrap(check.fail_to), edge_char)
                       ELSE [nodes |-> ns, result |-> "MissingLink"]

\* A queue that starts with the children of the root pushed twice
InitialQueueTwice(ns) ==
    LET once == [i \in 1..Len(ns[RootNodeId + 1].nxt) |->
                    <<RootNodeId, ns[RootNodeId + 1].nxt[i][2],
                      ns[RootNodeId + 1].nxt[i][1]>>]
    IN  once \o once

\* The queue compute_failure_links starts from: the children of the root.
InitialQueue(ns) ==
    [i \in 1..Len(ns[RootNodeId + 1].nxt) |->
        <<RootNodeId, ns[RootNodeId + 1].nxt[i][2], ns[RootNodeId + 1].nxt[i][1]>>]

\* An iteration that starts the probe at the parent of the node instead of
\* the node the parent's failure link leads to.
FailureLinkIterationFromParent(ns, q) ==
    LET parent_id == q[1][1]
        current_id == q[1][2]
        edge_char == q[1][3]
        popped == Tail(q)
    IN  IF current_id >= Len(ns)
        THEN [nodes |-> ns, queue |-> popped, result |-> "InvalidNodeId"]
        ELSE LET curr_nxt == ns[current_id + 1].nxt
                 pushed == popped \o
                           [i \in 1..Len(curr_nxt) |->
                               <<current_id, curr_nxt[i][2], curr_nxt[i][1]>>]
             IN  IF parent_id = RootNodeId
                 THEN LET linked == AddLink(ns, current_id, parent_id, edge_char, TRUE)
                      IN  [nodes |-> linked.nodes, queue |-> pushed,
                           result |-> linked.result]
                 ELSE IF parent_id >= Len(ns)
                 THEN [nodes |-> ns, queue |-> pushed, result |-> "InvalidNodeId"]
                 ELSE LET probed == ProbeFailure(ns, current_id, parent_id, edge_char)
                      IN  [nodes |-> probed.nodes, queue |-> pushed,
                           result |-> probed.result]

\* An iteration that pushes the children at the front of the queue, so that
\* the tree is walked depth first.
FailureLinkIterationDepthFirst(ns, q) ==
    LET parent_id == q[1][1]
        current_id == q[1][2]
        edge_char == q[1][3]
        popped == Tail(q)
    IN  IF current_id >= Len(ns)
        THEN [nodes |-> ns, queue |-> popped, result |-> "InvalidNodeId"]
        ELSE LET curr_nxt == ns[current_id + 1].nxt
                 pushed == [i \in 1..Len(curr_nxt) |->
                               <<current_id, curr_nxt[i][2], curr_nxt[i][1]>>]
                           \o popped
             IN  IF parent_id = RootNodeId
                 THEN LET linked == AddLink(ns, current_id, parent_id, edge_char, TRUE)
                      IN  [nodes |-> linked.nodes, queue |-> pushed,
                           result |-> linked.result]
                 ELSE IF parent_id >= Len(ns)
                 THEN [nodes |-> ns, queue |-> pushed, result |-> "InvalidNodeId"]
                 ELSE IF ~IsSome(ns[parent_id + 1].fail_to)
                 THEN [nodes |-> ns, queue |-> pushed, result |-> "MissingLink"]
                 ELSE LET probed == ProbeFailure(ns, current_id,
                                                 Unwrap(ns[parent_id + 1].fail_to),
                                                 edge_char)
                      IN  [nodes |-> probed.nodes, queue |-> pushed,
                           result |-> probed.result]

\* An iteration that links the node and leaves its triple in the queue
FailureLinkIterationKeepingTriple(ns, q) ==
    LET parent_id == q[1][1]
        current_id == q[1][2]
        edge_char == q[1][3]
    IN  IF current_id >= Len(ns) \/ parent_id >= Len(ns)
        THEN [nodes |-> ns, queue |-> q, result |-> "InvalidNodeId"]
        ELSE IF parent_id = RootNodeId
        THEN LET linked == AddLink(ns, current_id, parent_id, edge_char, TRUE)
             IN  [nodes |-> linked.nodes, queue |-> q, result |-> linked.result]
        ELSE IF ~IsSome(ns[parent_id + 1].fail_to)
        THEN [nodes |-> ns, queue |-> q, result |-> "MissingLink"]
        ELSE LET probed == ProbeFailure(ns, current_id,
                                        Unwrap(ns[parent_id + 1].fail_to), edge_char)
             IN  [nodes |-> probed.nodes, queue |-> q, result |-> probed.result]

\* One iteration of the while loop of compute_failure_links on a non-empty queue.
FailureLinkIteration(ns, q) ==
    LET parent_id == q[1][1]
        current_id == q[1][2]
        edge_char == q[1][3]
        popped == Tail(q)
    IN  IF current_id >= Len(ns)
        THEN [nodes |-> ns, queue |-> popped, result |-> "InvalidNodeId"]
        ELSE LET curr_nxt == ns[current_id + 1].nxt
                 pushed == popped \o
                           [i \in 1..Len(curr_nxt) |->
                               <<current_id, curr_nxt[i][2], curr_nxt[i][1]>>]
             IN  IF parent_id = RootNodeId
                 THEN LET linked == AddLink(ns, current_id, parent_id, edge_char, TRUE)
                      IN  [nodes |-> linked.nodes, queue |-> pushed,
                           result |-> linked.result]
                 ELSE IF parent_id >= Len(ns)
                 THEN [nodes |-> ns, queue |-> pushed, result |-> "InvalidNodeId"]
                 ELSE IF ~IsSome(ns[parent_id + 1].fail_to)
                 THEN [nodes |-> ns, queue |-> pushed, result |-> "MissingLink"]
                 ELSE LET probed == ProbeFailure(ns, current_id,
                                                 Unwrap(ns[parent_id + 1].fail_to),
                                                 edge_char)
                      IN  [nodes |-> probed.nodes, queue |-> pushed,
                           result |-> probed.result]

\* ------------------------------------------------------------------ dictionary links

\* The while loop of finalize_links for one node: the first node with a value
\* on the failure chain from curr_id, None at the root.  panic: an unwrap of
\* an absent failure link, or an index out of bounds.
\* A walk that stops at the first node of the failure chain, whether or not
\* it carries a value.
DictLinkFromAnyNode(ns, curr_id) ==
    IF curr_id = RootNodeId THEN [dct_to |-> None, panic |-> FALSE]
    ELSE IF curr_id >= Len(ns) THEN [dct_to |-> None, panic |-> TRUE]
    ELSE [dct_to |-> Some(curr_id), panic |-> FALSE]

RECURSIVE DictLinkFrom(_, _)
DictLinkFrom(ns, curr_id) ==
    IF curr_id = RootNodeId THEN [dct_to |-> None, panic |-> FALSE]
    ELSE IF curr_id >= Len(ns) THEN [dct_to |-> None, panic |-> TRUE]
    ELSE IF IsSome(ValueKeyword(ns[curr_id + 1]))
         THEN [dct_to |-> Some(curr_id), panic |-> FALSE]
         ELSE IF IsSome(ns[curr_id + 1].fail_to)
              THEN DictLinkFrom(ns, Unwrap(ns[curr_id + 1].fail_to))
              ELSE [dct_to |-> None, panic |-> TRUE]

\* A finalize_links that sorts the edges and sets no dictionary link
FinalizeLinksSortOnly(ns) ==
    [nodes |-> [i \in 1..Len(ns) |-> [ns[i] EXCEPT !.nxt = SortLinks(@)]],
     result |-> "Ok"]

\* TrieRoot::finalize_links
FinalizeLinks(ns) ==
    LET sorted == [i \in 1..Len(ns) |-> [ns[i] EXCEPT !.nxt = SortLinks(@)]]
        walk(i) == IF IsSome(sorted[i].fail_to)
                   THEN DictLinkFrom(sorted, Unwrap(sorted[i].fail_to))
                   ELSE [dct_to |-> None, panic |-> TRUE]
    IN  IF \E i \in 2..Len(sorted) : walk(i).panic
        THEN [nodes |-> sorted, result |-> "panic"]
        ELSE [nodes |-> [i \in 1..Len(sorted) |->
                            IF i = RootNodeId + 1 THEN sorted[i]
                            ELSE IF IsSome(walk(i).dct_to)
                                 THEN [sorted[i] EXCEPT !.dct_to = walk(i).dct_to]
                                 ELSE sorted[i]],
              result |-> "Ok"]

\* ------------------------------------------------------------------ validation

\* The validation comparing whole entries (pattern and keyword) for equality.
ValidateSortedWholeEntries(d) ==
    LET bad == {i \in 1..(Len(d) - 1) :
                    d[i] = d[i + 1] \/ d[i][1] = << >> \/ d[i + 1][1] = << >>}
    IN  IF bad = {} THEN "Ok"
        ELSE LET i == CHOOSE k \in bad : \A j \in bad : k <= j
             IN  IF d[i] = d[i + 1] THEN "DuplicateNode" ELSE "InvalidDictionary"

\* The checks of create_prefix_tree on the sorted dictionary: the first
\* adjacent pair that is rejected decides the error.
ValidateSorted(d) ==
    LET bad == {i \in 1..(Len(d) - 1) :
                    d[i][1] = d[i + 1][1] \/ d[i][1] = << >> \/ d[i + 1][1] = << >>}
    IN  IF bad = {} THEN "Ok"
        ELSE LET i == CHOOSE k \in bad : \A j \in bad : k <= j
             IN  IF d[i][1] = d[i + 1][1] THEN "DuplicateNode" ELSE "InvalidDictionary"

\* The dictionary lower-cased but left in the order given.
PrepareDictionaryUnsorted(d, o) ==
    IF ~o.case_sensitive
    THEN [i \in 1..Len(d) |-> <<ToLowercase(d[i][1]), d[i][2]>>]
    ELSE d

\* The dictionary as create_prefix_tree prepares it: lower-cased when the
\* search is case-insensitive (patterns only), then sorted.
PrepareDictionary(d, o) ==
    SortDictionary(IF ~o.case_sensitive
                   THEN [i \in 1..Len(d) |-> <<ToLowercase(d[i][1]), d[i][2]>>]
                   ELSE d)

\* The checks without the test for an empty dictionary.
CheckDictionaryUnguarded(d, o) ==
    [dictionary |-> PrepareDictionary(d, o),
     verdict |-> ValidateSorted(PrepareDictionary(d, o))]

\* create_prefix_tree before TrieRoot::new: the dictionary as it leaves the
\* checks, and Ok or the error returned.
CheckDictionary(d, o) ==
    IF Len(d) = 0 THEN [dictionary |-> d, verdict |-> "InvalidDictionary"]
    ELSE LET prepared == PrepareDictionary(d, o)
         IN  [dictionary |-> prepared, verdict |-> ValidateSorted(prepared)]

\* ------------------------------------------------------------------ construction as a whole

\* The insertion loop of create_prefix_tree from entry i on.
RECURSIVE InsertPatterns(_, _, _, _)
InsertPatterns(ns, mpl, d, i) ==
    IF i > Len(d) THEN [nodes |-> ns, max_pattern_len |-> mpl, result |-> "Ok"]
    ELSE LET added == AddPattern(ns, mpl, d[i][1], d[i][2])
         IN  IF added.result # "Ok"
             THEN [nodes |-> added.nodes, max_pattern_len |-> added.max_pattern_len,
                   result |-> "panic"]
             ELSE InsertPatterns(added.nodes, added.max_pattern_len, d, i + 1)

\* The while loop of compute_failure_links from queue q on.
RECURSIVE FailureLinksFrom(_, _)
FailureLinksFrom(ns, q) ==
    IF Len(q) = 0 THEN [nodes |-> ns, result |-> "Ok"]
    ELSE LET done == FailureLinkIteration(ns, q)
         IN  IF done.result # "Ok" THEN [nodes |-> done.nodes, result |-> done.result]
             ELSE FailureLinksFrom(done.nodes, done.queue)

\* TrieRoot::compute_failure_links
ComputeFailureLinks(ns) == FailureLinksFrom(ns, InitialQueue(ns))

\* create_prefix_tree as a function of its arguments: the tree and Ok, or
\* the error.
CreatePrefixTreeOf(d, o) ==
    LET checked == CheckDictionary(d, o)
        filled == InsertPatterns(<<DefaultNode>>, 0, checked.dictionary, 1)
        linked == ComputeFailureLinks(filled.nodes)
        final == FinalizeLinks(linked.nodes)
    IN  IF checked.verdict # "Ok"
        THEN [nodes |-> << >>, max_pattern_len |-> 0, result |-> checked.verdict]
        ELSE IF filled.result # "Ok" THEN filled
        ELSE IF linked.result # "Ok"
        THEN [nodes |-> linked.nodes, max_pattern_len |-> filled.max_pattern_len,
              result |-> linked.result]
        ELSE [nodes |-> final.nodes, max_pattern_len |-> filled.max_pattern_len,
              result |-> final.result]

\* ------------------------------------------------------------------ scan

\* Match::new taking end_pos for the index of the last character of the match.
NewMatchFromLastIndex(value, kw, end_pos) ==
    [start |-> (end_pos - Len(value)) + 1, value |-> value, kw |-> kw, end |-> end_pos]

\* Match::new
NewMatch(value, kw, end_pos) ==
    [start |-> end_pos - Len(value), value |-> value, kw |-> kw, end |-> end_pos]

\* is_word_bounded reads buffer[buffer.len() - pat_len - 1] unless start is 0:
\* the subtraction must not underflow.
LeftIndexValid(m, buffer) ==
    m.start = 0 \/ Len(buffer) >= (m.end - m.start) + 1

\* is_word_bounded without the check of the preceding character.
IsWordBoundedOnTheRight(m, buffer, next_char) ==
    IF ~IsSome(next_char) THEN TRUE ELSE ~IsWordChar(Unwrap(next_char))

\* is_word_bounded reading the first character of the match for the
\* character before it (buffer[buffer.len() - pat_len]).
IsWordBoundedFromFirstChar(m, buffer, next_char) ==
    LET pat_len == m.end - m.start
        left == m.start = 0 \/ ~IsWordChar(buffer[(Len(buffer) - pat_len) + 1])
        right == IF ~IsSome(next_char) THEN TRUE ELSE ~IsWordChar(Unwrap(next_char))
    IN  left /\ right

\* is_word_bounded (next_char is an Option<char>)
IsWordBounded(m, buffer, next_char) ==
    LET pat_len == m.end - m.start
        left == m.start = 0 \/ ~IsWordChar(buffer[(Len(buffer) - pat_len - 1) + 1])
        right == IF ~IsSome(next_char) THEN TRUE ELSE ~IsWordChar(Unwrap(next_char))
    IN  left /\ right

\* A buffer update that never drops the oldest character
PushBufferKeepingAll(o, mpl, buffer, ch) ==
    IF o.check_bounds THEN Append(buffer, ch) ELSE buffer

\* A buffer update that keeps max_pattern_len characters, one too few
PushBufferOfPatternLen(o, mpl, buffer, ch) ==
    IF o.check_bounds
    THEN Append(IF Len(buffer) >= mpl /\ Len(buffer) > 0 THEN Tail(buffer) ELSE buffer, ch)
    ELSE buffer

\* The buffer update of find_text_matches
PushBuffer(o, mpl, buffer, ch) ==
    IF o.check_bounds
    THEN Append(IF Len(buffer) >= mpl + 1 THEN Tail(buffer) ELSE buffer, ch)
    ELSE buffer

\* The failover loop without the stop at the root.
RECURSIVE FailoverPastRoot(_, _, _)
FailoverPastRoot(ns, curr_id, ch) ==
    IF curr_id >= Len(ns) THEN [id |-> curr_id, result |-> "panic"]
    ELSE IF ~IsSome(FollowLink(ns[curr_id + 1], ch))
         THEN IF IsSome(ns[curr_id + 1].fail_to)
              THEN FailoverPastRoot(ns, Unwrap(ns[curr_id + 1].fail_to), ch)
              ELSE [id |-> curr_id, result |-> "MissingLink"]
         ELSE [id |-> curr_id, result |-> "Ok"]

\* A failover that restarts at the root as soon as the current node has no
\* edge on ch.
FailoverToRoot(ns, curr_id, ch) ==
    IF curr_id >= Len(ns) THEN [id |-> curr_id, result |-> "panic"]
    ELSE IF curr_id # RootNodeId /\ ~IsSome(FollowLink(ns[curr_id + 1], ch))
         THEN [id |-> RootNodeId, result |-> "Ok"]
         ELSE [id |-> curr_id, result |-> "Ok"]

\* The failover loop of find_text_matches: from curr_id follow the failure
\* links until a node with an edge on ch, or the root.
RECURSIVE Failover(_, _, _)
Failover(ns, curr_id, ch) ==
    IF curr_id >= Len(ns) THEN [id |-> curr_id, result |-> "panic"]
    ELSE IF curr_id # RootNodeId /\ ~IsSome(FollowLink(ns[curr_id + 1], ch))
         THEN IF IsSome(ns[curr_id + 1].fail_to)
              THEN Failover(ns, Unwrap(ns[curr_id + 1].fail_to), ch)
              ELSE [id |-> curr_id, result |-> "MissingLink"]
         ELSE [id |-> curr_id, result |-> "Ok"]

\* The move along the edge on ch, if there is one.
Advance(ns, curr_id, ch) ==
    LET found == FollowLink(ns[curr_id + 1], ch)
    IN  IF IsSome(found) THEN Unwrap(found) ELSE curr_id

\* The match loop of find_text_matches: from check_id along the dictionary
\* links to the root, pushing the matches that pass the bound check onto acc.
\* panic: an index out of bounds or a subtraction below zero.
\* The match loop collecting the shortest match first: the dictionary links
\* are followed before the node's own match is pushed.
RECURSIVE CollectMatchesShortestFirst(_, _, _, _, _, _, _)
CollectMatchesShortestFirst(ns, o, check_id, idx, buffer, nxt_ch, acc) ==
    IF check_id = RootNodeId \/ check_id >= Len(ns) THEN [matches |-> acc, result |-> "Ok"]
    ELSE LET check == ns[check_id + 1]
             vk == ValueKeyword(check)
             next_id == IF IsSome(check.dct_to) THEN Unwrap(check.dct_to) ELSE RootNodeId
             rest == CollectMatchesShortestFirst(ns, o, next_id, idx, buffer, nxt_ch, acc)
         IN  IF ~IsSome(vk) THEN rest
             ELSE LET m == NewMatch(Unwrap(vk)[1], Unwrap(vk)[2], idx + 1)
                  IN  IF ~o.check_bounds \/ IsWordBounded(m, buffer, nxt_ch)
                      THEN [rest EXCEPT !.matches = Append(@, m)]
                      ELSE rest

\* A collection that reports the value of the node reached and never follows
\* its dictionary link.
CollectMatchesOwnValueOnly(ns, o, check_id, idx, buffer, nxt_ch, acc) ==
    IF check_id = RootNodeId \/ check_id >= Len(ns) THEN [matches |-> acc, result |-> "Ok"]
    ELSE LET vk == ValueKeyword(ns[check_id + 1])
         IN  IF ~IsSome(vk) THEN [matches |-> acc, result |-> "Ok"]
             ELSE LET m == NewMatch(Unwrap(vk)[1], Unwrap(vk)[2], idx + 1)
                  IN  IF ~o.check_bounds \/ IsWordBounded(m, buffer, nxt_ch)
                      THEN [matches |-> Append(acc, m), result |-> "Ok"]
                      ELSE [matches |-> acc, result |-> "Ok"]

RECURSIVE CollectMatches(_, _, _, _, _, _, _)
CollectMatches(ns, o, check_id, idx, buffer, nxt_ch, acc) ==
    IF check_id = RootNodeId THEN [matches |-> acc, result |-> "Ok"]
    ELSE IF check_id >= Len(ns) THEN [matches |-> acc, result |-> "panic"]
    ELSE LET check == ns[check_id + 1]
             vk == ValueKeyword(check)
             next_id == IF IsSome(check.dct_to) THEN Unwrap(check.dct_to) ELSE RootNodeId
         IN  IF ~IsSome(vk)
             THEN CollectMatches(ns, o, next_id, idx, buffer, nxt_ch, acc)
             ELSE IF Len(Unwrap(vk)[1]) > idx + 1
             THEN [matches |-> acc, result |-> "panic"]
             ELSE LET m == NewMatch(Unwrap(vk)[1], Unwrap(vk)[2], idx + 1)
                  IN  IF ~o.check_bounds
                      THEN CollectMatches(ns, o, next_id, idx, buffer, nxt_ch,
                                          Append(acc, m))
                      ELSE IF ~LeftIndexValid(m, buffer)
                      THEN [matches |-> acc, result |-> "panic"]
                      ELSE CollectMatches(ns, o, next_id, idx, buffer, nxt_ch,
                                          IF IsWordBounded(m, buffer, nxt_ch)
                                          THEN Append(acc, m) ELSE acc)

\* The text scanned when the case folding is forgotten.
ScanTextAsGiven(o, t) == t

\* A scan that would also normalize the text it is given
ScanTextNormalized(o, t) == Nfc(IF ~o.case_sensitive THEN ToLowercase(t) ELSE t)

\* The text find_text_matches scans: lower-cased unless case_sensitive.
ScanText(o, t) == IF ~o.case_sensitive THEN ToLowercase(t) ELSE t

\* The state of a scan before its first character.
ScanStart ==
    [idx |-> 0, curr_id |-> RootNodeId, char_buffer |-> << >>, matches |-> << >>,
     result |-> "Ok"]

\* The one element of a set of one element: a value computed once and named
Only(S) == CHOOSE x \in S : TRUE

\* The iteration from the match loop on: the scanner has moved to the node
\* moved.
ScanCharAt(ns, o, st, buffer, nxt_ch, moved) ==
    IF moved >= Len(ns)
    THEN [st EXCEPT !.char_buffer = buffer, !.curr_id = moved, !.result = "panic"]
    ELSE Only({[idx |-> IF collected.result = "Ok" THEN st.idx + 1 ELSE st.idx,
                curr_id |-> moved,
                char_buffer |-> buffer,
                matches |-> collected.matches,
                result |-> collected.result] :
                  collected \in {CollectMatches(ns, o, moved, st.idx, buffer, nxt_ch,
                                                st.matches)}})

\* The iteration after the failover loop, which ended as failed says.
ScanCharFrom(ns, o, st, ch, nxt_ch, buffer, failed) ==
    IF failed.result # "Ok"
    THEN [st EXCEPT !.char_buffer = buffer, !.curr_id = failed.id,
                    !.result = failed.result]
    ELSE Only({ScanCharAt(ns, o, st, buffer, nxt_ch, moved) :
                  moved \in {Advance(ns, failed.id, ch)}})

\* One iteration of the while loop of find_text_matches: the character at
\* index st.idx of txt is consumed.
ScanChar(ns, o, mpl, txt, st) ==
    LET ch == txt[st.idx + 1]
        nxt_ch == IF st.idx + 2 <= Len(txt) THEN Some(txt[st.idx + 2]) ELSE None
    IN  Only({ScanCharFrom(ns, o, st, ch, nxt_ch, buffer, failed) :
                 buffer \in {PushBuffer(o, mpl, st.char_buffer, ch)},
                 failed \in {Failover(ns, st.curr_id, ch)}})

\* The while loop of find_text_matches from state st to the end of txt.
RECURSIVE ScanFrom(_, _, _, _, _)
ScanFrom(ns, o, mpl, txt, st) ==
    IF st.result # "Ok" \/ st.idx >= Len(txt) THEN st
    ELSE ScanFrom(ns, o, mpl, txt, ScanChar(ns, o, mpl, txt, st))

\* TrieRoot::find_text_matches as a function of the automaton and the text
FindTextMatches(ns, o, mpl, txt) ==
    ScanFrom(ns, o, mpl, ScanText(o, txt), ScanStart)

\* ------------------------------------------------------------------ parallel_apply

MAX_THREADS == 16

\* The values of the items: 0, 1, 2, ... as in test_parallel_apply
ItemValues == 0..(MaxItems - 1)

\* The vectors given to parallel_apply: (0..n).collect()
ItemVectors == {[i \in 1..n |-> i - 1] : n \in 0..MaxItems}

\* The closures given to parallel_apply: |num| num + 1 and |num| num * 2 + 1
Mappings == {"succ", "double_succ"}

Apply(f, num) == IF f = "succ" THEN num + 1 ELSE num * 2 + 1

\* usize::min
Min(a, b) == IF a <= b THEN a ELSE b

\* The thread count with no cap on the default.
NThreadsUncapped(total, len, asked) ==
    IF ~IsSome(asked) THEN Min(total, len)
    ELSE IF Unwrap(asked) = 0 THEN Min(total, len)
    ELSE Min(Unwrap(asked), len)

\* The thread count parallel_apply decides on: total is get_total_threads(),
\* len is items.len(), asked is num_threads.
NThreads(total, len, asked) ==
    IF ~IsSome(asked) THEN Min(Min(total, len), MAX_THREADS)
    ELSE IF Unwrap(asked) = 0 THEN Min(Min(total, len), MAX_THREADS)
    ELSE Min(Unwrap(asked), len)

\* slice::chunks_mut(chunk_size) collected: consecutive chunks of chunk_size
\* elements, the last one shorter when the length is not a multiple.
RECURSIVE Chunks(_, _)
Chunks(v, chunk_size) ==
    IF Len(v) = 0 THEN << >>
    ELSE IF Len(v) <= chunk_size THEN <<v>>
    ELSE <<SubSeq(v, 1, chunk_size)>> \o Chunks(SubSeq(v, chunk_size + 1, Len(v)), chunk_size)

\* The outputs of one thread: mapping applied to its elements in order
MapAll(f, elems) == [i \in 1..Len(elems) |-> Apply(f, elems[i])]

\* calls after mapping was called once on each element of elems
Counted(c, elems) ==
    [v \in ItemValues |-> c[v] + Cardinality({i \in 1..Len(elems) : elems[i] = v})]

\* ------------------------------------------------------------------ state

VARIABLES
    pc,              \* where the caller stands
    opts,            \* the options given to create_prefix_tree
    dictionary,      \* create_prefix_tree's dictionary: as given, then as prepared
    inserted,        \* how many entries the insertion loop has consumed
    nodes,           \* TrieRoot.nodes
    max_pattern_len, \* TrieRoot.max_pattern_len
    queue,           \* the queue of compute_failure_links
    built,           \* what create_prefix_tree returned
    haystack,        \* the text given to find_text_matches
    text,            \* find_text_matches' text, lower-cased if need be
    idx,             \* index of the next character to consume
    curr_id,         \* the scanner's current node
    char_buffer,     \* the last characters consumed (bound check)
    matches,         \* the matches found so far
    found,           \* what find_text_matches returned
    path,            \* the path given to node_by_path
    looked_up,       \* what node_by_path returned
    history,         \* the texts scanned before, each with the matches returned
    scanners,        \* the locals of find_text_matches in each scanning thread
    items,           \* parallel_apply: the items to map
    mapping,         \* parallel_apply: the function applied to each item
    num_threads,     \* parallel_apply: the thread count asked for, an Option
    available,       \* what get_total_threads returns
    n_threads,       \* parallel_apply: the thread count decided on
    input_groups,    \* parallel_apply: the chunks of items, one per thread
    handles,         \* parallel_apply: the threads spawned, each with its outputs
    joined,          \* parallel_apply: how many handles have been joined
    output,          \* parallel_apply: the vector returned
    calls,           \* how many times mapping was called on each value
    file_lines,      \* read_dictionary: the lines of the dictionary file
    line_no,         \* read_dictionary: how many lines have been read
    elems,           \* read_dictionary: the entries read so far
    ring_buffer,     \* a RingBuffer: values, capacity, pos
    pushed_items,    \* the items pushed onto ring_buffer since RingBuffer::new
    got              \* the last call of get_item: its index and what it returned

vars ==
    <<pc, opts, dictionary, inserted, nodes, max_pattern_len, queue, built,
      haystack, text, idx, curr_id, char_buffer, matches, found,
      path, looked_up, history, scanners,
      items, mapping, num_threads, available, n_threads, input_groups, handles,
      joined, output, calls,
      file_lines, line_no, elems,
      ring_buffer, pushed_items, got>>

buildVars == <<opts, dictionary, inserted, nodes, max_pattern_len, queue, built>>

scanVars == <<haystack, text, idx, curr_id, char_buffer, matches, found>>

lookupVars == <<path, looked_up>>

\* What create_prefix_tree and find_text_matches never touch: the state of
\* the other callers of the tree.
poolVars ==
    <<items, mapping, num_threads, available, n_threads, input_groups, handles,
      joined, output, calls>>

cliVars == <<file_lines, line_no, elems>>

ringVars == <<ring_buffer, pushed_items, got>>

restVars == <<lookupVars, history, scanners, poolVars, cliVars, ringVars>>

Scanners == 1..NumScanners

\* A thread that has not called find_text_matches yet.
IdleScanner ==
    [pc |-> "idle", haystack |-> << >>, text |-> << >>, idx |-> ScanStart.idx,
     curr_id |-> ScanStart.curr_id, char_buffer |-> ScanStart.char_buffer,
     matches |-> ScanStart.matches, found |-> "none"]

\* No other caller has run yet.
RestInit ==
    /\ path = << >>
    /\ looked_up = None
    /\ history = << >>
    /\ scanners = [th \in Scanners |-> IdleScanner]

\* parallel_apply has not been called.
PoolIdle ==
    /\ items = << >>
    /\ mapping = "succ"
    /\ num_threads = None
    /\ available = 1
    /\ n_threads = 0
    /\ input_groups = << >>
    /\ handles = << >>
    /\ joined = 0
    /\ output = << >>
    /\ calls = [v \in ItemValues |-> 0]

\* read_dictionary has not been called.
CliIdle ==
    /\ file_lines = << >>
    /\ line_no = 0
    /\ elems = << >>

\* No RingBuffer has been made.
RingIdle ==
    /\ ring_buffer = [values |-> << >>, capacity |-> 0, pos |-> 0]
    /\ pushed_items = << >>
    /\ got = None

InitWith(dictionaries) ==
    /\ pc = "create"
    /\ dictionary \in dictionaries
    /\ opts \in OptionsSet
    /\ inserted = 0
    /\ nodes = << >>
    /\ max_pattern_len = 0
    /\ queue = << >>
    /\ built = "none"
    /\ haystack = << >>
    /\ text = << >>
    /\ idx = 0
    /\ curr_id = RootNodeId
    /\ char_buffer = << >>
    /\ matches = << >>
    /\ found = "none"
    /\ RestInit
    /\ PoolIdle
    /\ CliIdle
    /\ RingIdle

Init == InitWith(DictionariesWithin(MaxScanDictCost))

InitBuild == InitWith(DictionariesWithin(MaxDictCost))

\* create_prefix_tree up to TrieRoot::new: the empty check, the case folding,
\* the sort and the validation of adjacent entries.
CreatePrefixTree ==
    /\ pc = "create"
    /\ LET checked == CheckDictionary(dictionary, opts)
       IN  /\ dictionary' = checked.dictionary
           /\ IF checked.verdict # "Ok"
              THEN /\ built' = checked.verdict
                   /\ pc' = "failed"
                   /\ UNCHANGED nodes
              ELSE /\ built' = "none"
                   /\ pc' = "add_patterns"
                   /\ nodes' = <<DefaultNode>>
    /\ UNCHANGED <<opts, inserted, max_pattern_len, queue>>
    /\ UNCHANGED scanVars
    /\ UNCHANGED restVars

\* One iteration of the insertion loop of create_prefix_tree:
\* pt.add_pattern(pattern, keyword).unwrap()
AddPatternStep ==
    /\ pc = "add_patterns"
    /\ inserted < Len(dictionary)
    /\ LET added == AddPattern(nodes, max_pattern_len,
                               dictionary[inserted + 1][1], dictionary[inserted + 1][2])
       IN  /\ nodes' = added.nodes
           /\ max_pattern_len' = added.max_pattern_len
           /\ inserted' = inserted + 1
           /\ IF added.result = "Ok"
              THEN UNCHANGED <<pc, built>>
              ELSE pc' = "failed" /\ built' = "panic"
    /\ UNCHANGED <<opts, dictionary, queue>>
    /\ UNCHANGED scanVars
    /\ UNCHANGED restVars

\* compute_failure_links: the queue is filled with the children of the root.
ComputeFailureLinksStart ==
    /\ pc = "add_patterns"
    /\ inserted >= Len(dictionary)
    /\ queue' = InitialQueue(nodes)
    /\ pc' = "failure_links"
    /\ UNCHANGED <<opts, dictionary, inserted, nodes, max_pattern_len, built>>
    /\ UNCHANGED scanVars
    /\ UNCHANGED restVars

\* compute_failure_links: one triple is popped and its node gets its failure link.
FailureLinkStep ==
    /\ pc = "failure_links"
    /\ Len(queue) > 0
    /\ LET done == FailureLinkIteration(nodes, queue)
       IN  /\ nodes' = done.nodes
           /\ queue' = done.queue
           /\ IF done.result = "Ok"
              THEN UNCHANGED <<pc, built>>
              ELSE pc' = "failed" /\ built' = done.result
    /\ UNCHANGED <<opts, dictionary, inserted, max_pattern_len>>
    /\ UNCHANGED scanVars
    /\ UNCHANGED restVars

\* The queue is empty: compute_failure_links returns Ok, finalize_links runs
\* and create_prefix_tree returns the tree.
FinalizeLinksStep ==
    /\ pc = "failure_links"
    /\ Len(queue) = 0
    /\ LET final == FinalizeLinks(nodes)
       IN  /\ nodes' = final.nodes
           /\ IF final.result = "Ok"
              THEN pc' = "built" /\ built' = "Ok"
              ELSE pc' = "failed" /\ built' = "panic"
    /\ UNCHANGED <<opts, dictionary, inserted, max_pattern_len, queue>>
    /\ UNCHANGED scanVars
    /\ UNCHANGED restVars

\* find_text_matches is called on the built tree.
FindTextMatchesStart ==
    /\ pc = "built"
    /\ \E t \in Texts :
          /\ haystack' = t
          /\ text' = ScanText(opts, t)
    /\ idx' = ScanStart.idx
    /\ curr_id' = ScanStart.curr_id
    /\ char_buffer' = ScanStart.char_buffer
    /\ matches' = ScanStart.matches
    /\ found' = "none"
    /\ pc' = "scanning"
    /\ UNCHANGED buildVars
    /\ UNCHANGED restVars

\* find_text_matches consumes the character at idx.
ScanCharStep ==
    /\ pc = "scanning"
    /\ idx < Len(text)
    /\ LET st == ScanChar(nodes, opts, max_pattern_len, text,
                          [idx |-> idx, curr_id |-> curr_id,
                           char_buffer |-> char_buffer, matches |-> matches,
                           result |-> "Ok"])
       IN  /\ idx' = st.idx
           /\ curr_id' = st.curr_id
           /\ char_buffer' = st.char_buffer
           /\ matches' = st.matches
           /\ IF st.result = "Ok"
              THEN UNCHANGED <<pc, found>>
              ELSE pc' = "scan_failed" /\ found' = st.result
    /\ UNCHANGED <<haystack, text>>
    /\ UNCHANGED buildVars
    /\ UNCHANGED restVars

\* The text is exhausted: find_text_matches returns Ok(matches).
FindTextMatchesReturn ==
    /\ pc = "scanning"
    /\ idx >= Len(text)
    /\ pc' = "returned"
    /\ found' = "Ok"
    /\ UNCHANGED <<haystack, text, idx, curr_id, char_buffer, matches>>
    /\ UNCHANGED buildVars
    /\ UNCHANGED restVars

Next ==
    \/ CreatePrefixTree
    \/ AddPatternStep
    \/ ComputeFailureLinksStart
    \/ FailureLinkStep
    \/ FinalizeLinksStep
    \/ FindTextMatchesStart
    \/ ScanCharStep
    \/ FindTextMatchesReturn

Spec == Init /\ [][Next]_vars

\* The caller is one sequential thread: a step that can be taken is taken.
\* Termination is checked from the dictionaries of cost at most
\* MaxLiveDictCost.
InitLive == InitWith(DictionariesWithin(MaxLiveDictCost))

SpecLive == InitLive /\ [][Next]_vars /\ WF_vars(Next)

\* Construction alone: create_prefix_tree from its call to its return.
NextBuild ==
    \/ CreatePrefixTree
    \/ AddPatternStep
    \/ ComputeFailureLinksStart
    \/ FailureLinkStep
    \/ FinalizeLinksStep

SpecBuild == InitBuild /\ [][NextBuild]_vars

\* The paths looked up in a built tree: the patterns of the dictionary, their
\* normalized forms, and the empty path.
LookupPaths ==
    {dictionary[i][1] : i \in 1..Len(dictionary)}
    \cup {Nfc(dictionary[i][1]) : i \in 1..Len(dictionary)}
    \cup {<< >>}

\* node_by_path is called on the built tree.
NodeByPathCall ==
    /\ pc = "built"
    /\ \E p \in LookupPaths :
          /\ path' = p
          /\ looked_up' = NodeByPath(nodes, p)
    /\ pc' = "looked_up"
    /\ UNCHANGED buildVars
    /\ UNCHANGED scanVars
    /\ UNCHANGED <<history, scanners, poolVars, cliVars, ringVars>>

\* Construction, then one lookup by path.
NextLookup ==
    \/ NextBuild
    \/ NodeByPathCall

SpecLookup == InitBuild /\ [][NextLookup]_vars

RepeatTexts == StringsUpTo(MaxRepeatTextLen)

InitRepeat == InitWith(DictionariesWithin(MaxRepeatDictCost))

\* find_text_matches with its own list of matches growing from one call to
\* the next instead of starting empty.
FindTextMatchesAgainKeepingMatches ==
    /\ pc = "returned"
    /\ Len(history) + 1 < MaxScans
    /\ history' = Append(history, [haystack |-> haystack, matches |-> matches])
    /\ \E t \in RepeatTexts :
          /\ haystack' = t
          /\ text' = ScanText(opts, t)
    /\ idx' = ScanStart.idx
    /\ curr_id' = ScanStart.curr_id
    /\ char_buffer' = ScanStart.char_buffer
    /\ matches' = matches
    /\ found' = "none"
    /\ pc' = "scanning"
    /\ UNCHANGED buildVars
    /\ UNCHANGED <<lookupVars, scanners, poolVars, cliVars, ringVars>>

\* The caller keeps the matches returned and calls find_text_matches again
\* on the same tree.
FindTextMatchesAgain ==
    /\ pc = "returned"
    /\ Len(history) + 1 < MaxScans
    /\ history' = Append(history, [haystack |-> haystack, matches |-> matches])
    /\ \E t \in RepeatTexts :
          /\ haystack' = t
          /\ text' = ScanText(opts, t)
    /\ idx' = ScanStart.idx
    /\ curr_id' = ScanStart.curr_id
    /\ char_buffer' = ScanStart.char_buffer
    /\ matches' = ScanStart.matches
    /\ found' = "none"
    /\ pc' = "scanning"
    /\ UNCHANGED buildVars
    /\ UNCHANGED <<lookupVars, scanners, poolVars, cliVars, ringVars>>

\* Construction, then scans one after the other.
NextRepeat ==
    \/ Next
    \/ FindTextMatchesAgain

SpecRepeat == InitRepeat /\ [][NextRepeat]_vars

\* Thread th calls find_text_matches on the tree it shares with the others.
ScannerStart(th) ==
    /\ pc = "built"
    /\ scanners[th].pc = "idle"
    /\ \E t \in RepeatTexts :
          scanners' = [scanners EXCEPT ![th] =
                          [IdleScanner EXCEPT !.pc = "scanning", !.haystack = t,
                                              !.text = ScanText(opts, t)]]
    /\ UNCHANGED <<pc, buildVars, scanVars, lookupVars, history, poolVars, cliVars, ringVars>>

\* A step of thread th with the current node kept in the tree, where every
\* thread reads and writes it.
ScannerStepSharedCursor(th) ==
    /\ scanners[th].pc = "scanning"
    /\ scanners[th].idx < Len(scanners[th].text)
    /\ LET sc == scanners[th]
           st == ScanChar(nodes, opts, max_pattern_len, sc.text,
                          [idx |-> sc.idx, curr_id |-> curr_id,
                           char_buffer |-> sc.char_buffer, matches |-> sc.matches,
                           result |-> "Ok"])
       IN  /\ curr_id' = st.curr_id
           /\ scanners' = [scanners EXCEPT ![th] =
                              [sc EXCEPT !.idx = st.idx, !.curr_id = st.curr_id,
                                         !.char_buffer = st.char_buffer,
                                         !.matches = st.matches,
                                         !.pc = IF st.result = "Ok" THEN "scanning"
                                                ELSE "scan_failed",
                                         !.found = IF st.result = "Ok" THEN "none"
                                                   ELSE st.result]]
    /\ UNCHANGED <<pc, buildVars, lookupVars, history, poolVars, cliVars, ringVars>>
    /\ UNCHANGED <<haystack, text, idx, char_buffer, matches, found>>

\* Thread th consumes the character at its idx.
ScannerStep(th) ==
    /\ scanners[th].pc = "scanning"
    /\ scanners[th].idx < Len(scanners[th].text)
    /\ LET sc == scanners[th]
           st == ScanChar(nodes, opts, max_pattern_len, sc.text,
                          [idx |-> sc.idx, curr_id |-> sc.curr_id,
                           char_buffer |-> sc.char_buffer, matches |-> sc.matches,
                           result |-> "Ok"])
       IN  scanners' = [scanners EXCEPT ![th] =
                           [sc EXCEPT !.idx = st.idx, !.curr_id = st.curr_id,
                                      !.char_buffer = st.char_buffer,
                                      !.matches = st.matches,
                                      !.pc = IF st.result = "Ok" THEN "scanning"
                                             ELSE "scan_failed",
                                      !.found = IF st.result = "Ok" THEN "none"
                                                ELSE st.result]]
    /\ UNCHANGED <<pc, buildVars, scanVars, lookupVars, history, poolVars, cliVars, ringVars>>

\* The text of thread th is exhausted: its find_text_matches returns Ok(matches).
ScannerReturn(th) ==
    /\ scanners[th].pc = "scanning"
    /\ scanners[th].idx >= Len(scanners[th].text)
    /\ scanners' = [scanners EXCEPT ![th].pc = "returned", ![th].found = "Ok"]
    /\ UNCHANGED <<pc, buildVars, scanVars, lookupVars, history, poolVars, cliVars, ringVars>>

\* Construction, then scans of the one tree by several threads at once.
NextConcurrent ==
    \/ NextBuild
    \/ \E th \in Scanners : ScannerStart(th)
    \/ \E th \in Scanners : ScannerStep(th)
    \/ \E th \in Scanners : ScannerReturn(th)

SpecConcurrent == InitRepeat /\ [][NextConcurrent]_vars

\* The state of the tree while only parallel_apply runs.
TrieIdle ==
    /\ dictionary = << >>
    /\ opts = [case_sensitive |-> TRUE, check_bounds |-> FALSE]
    /\ inserted = 0
    /\ nodes = << >>
    /\ max_pattern_len = 0
    /\ queue = << >>
    /\ built = "none"
    /\ haystack = << >>
    /\ text = << >>
    /\ idx = 0
    /\ curr_id = RootNodeId
    /\ char_buffer = << >>
    /\ matches = << >>
    /\ found = "none"

trieVars == <<buildVars, scanVars, lookupVars, history, scanners, cliVars, ringVars>>

InitPool ==
    /\ pc = "parallel_apply"
    /\ TrieIdle
    /\ RestInit
    /\ CliIdle
    /\ RingIdle
    /\ items \in ItemVectors
    /\ mapping \in Mappings
    /\ num_threads \in {None} \cup {Some(i) : i \in 0..MaxThreadsArg}
    /\ available \in 1..MaxParallelism
    /\ n_threads = 0
    /\ input_groups = << >>
    /\ handles = << >>
    /\ joined = 0
    /\ output = << >>
    /\ calls = [v \in ItemValues |-> 0]

\* parallel_apply up to the thread scope: the early return on no items, the
\* thread count, and the chunks when more than one thread is used.
ParallelApplyCall ==
    /\ pc = "parallel_apply"
    /\ IF Len(items) = 0
       THEN /\ pc' = "applied"
            /\ UNCHANGED <<n_threads, input_groups>>
       ELSE LET n == NThreads(available, Len(items), num_threads)
            IN  /\ n_threads' = n
                /\ IF n = 1
                   THEN pc' = "single_thread" /\ UNCHANGED input_groups
                   ELSE /\ pc' = "spawning"
                        /\ input_groups' = Chunks(items, (Len(items) \div n) + 1)
    /\ UNCHANGED <<items, mapping, num_threads, available, handles, joined, output, calls>>
    /\ UNCHANGED trieVars

\* The single-thread loop: the next item is mapped and pushed.
MapNextItem ==
    /\ pc = "single_thread"
    /\ Len(output) < Len(items)
    /\ output' = Append(output, Apply(mapping, items[Len(output) + 1]))
    /\ calls' = Counted(calls, <<items[Len(output) + 1]>>)
    /\ UNCHANGED <<pc, items, mapping, num_threads, available, n_threads,
                   input_groups, handles, joined>>
    /\ UNCHANGED trieVars

\* The single-thread loop is over: parallel_apply returns out.
SingleThreadReturn ==
    /\ pc = "single_thread"
    /\ Len(output) = Len(items)
    /\ pc' = "applied"
    /\ UNCHANGED poolVars
    /\ UNCHANGED trieVars

\* The spawning loop: a thread is spawned for the next group.
Spawn ==
    /\ pc = "spawning"
    /\ Len(handles) < Len(input_groups)
    /\ handles' = Append(handles, [elems |-> input_groups[Len(handles) + 1],
                                   outputs |-> << >>, finished |-> FALSE])
    /\ pc' = IF Len(handles) + 1 = Len(input_groups) THEN "joining" ELSE "spawning"
    /\ UNCHANGED <<items, mapping, num_threads, available, n_threads, input_groups,
                   joined, output, calls>>
    /\ UNCHANGED trieVars

\* The closure of thread w runs: its elements are mapped in order.
WorkerRun(w) ==
    /\ pc \in {"spawning", "joining"}
    /\ ~handles[w].finished
    /\ handles' = [handles EXCEPT ![w].outputs = MapAll(mapping, handles[w].elems),
                                  ![w].finished = TRUE]
    /\ calls' = Counted(calls, handles[w].elems)
    /\ UNCHANGED <<pc, items, mapping, num_threads, available, n_threads,
                   input_groups, joined, output>>
    /\ UNCHANGED trieVars

\* The joining loop putting the outputs of a thread in front of the output.
JoinPrepending ==
    /\ pc = "joining"
    /\ joined < Len(handles)
    /\ handles[joined + 1].finished
    /\ output' = handles[joined + 1].outputs \o output
    /\ joined' = joined + 1
    /\ UNCHANGED <<pc, items, mapping, num_threads, available, n_threads,
                   input_groups, handles, calls>>
    /\ UNCHANGED trieVars

\* The joining loop: the next handle is joined, once its thread has
\* finished, and its outputs are appended to the output.
Join ==
    /\ pc = "joining"
    /\ joined < Len(handles)
    /\ handles[joined + 1].finished
    /\ output' = output \o handles[joined + 1].outputs
    /\ joined' = joined + 1
    /\ UNCHANGED <<pc, items, mapping, num_threads, available, n_threads,
                   input_groups, handles, calls>>
    /\ UNCHANGED trieVars

\* Every handle is joined: parallel_apply returns output.
ParallelApplyReturn ==
    /\ pc = "joining"
    /\ joined = Len(handles)
    /\ pc' = "applied"
    /\ UNCHANGED poolVars
    /\ UNCHANGED trieVars

NextPool ==
    \/ ParallelApplyCall
    \/ MapNextItem
    \/ SingleThreadReturn
    \/ Spawn
    \/ \E w \in 1..Len(handles) : WorkerRun(w)
    \/ Join
    \/ ParallelApplyReturn

SpecPool == InitPool /\ [][NextPool]_vars

\* ------------------------------------------------------------------ the documented example

\* The dictionary of the example of find_text_matches, as add_keyword_slot
\* returns it: a, abb, bb, bCd, bCx, Cxaabb, each without a keyword
ScenarioDictionary ==
    <<<<<<97>>, None>>,
      <<<<97, 98, 98>>, None>>,
      <<<<98, 98>>, None>>,
      <<<<98, 67, 100>>, None>>,
      <<<<98, 67, 120>>, None>>,
      <<<<67, 120, 97, 97, 98, 98>>, None>>>>

\* "This is a string with some nonsense to check: abbaaCxa bCdbCxbb"
ScenarioText ==
    <<84, 104, 105, 115, 32, 105, 115, 32, 97, 32, 115, 116, 114, 105, 110, 103,
      32, 119, 105, 116, 104, 32, 115, 111, 109, 101, 32, 110, 111, 110, 115, 101,
      110, 115, 101, 32, 116, 111, 32, 99, 104, 101, 99, 107, 58, 32, 97, 98,
      98, 97, 97, 67, 120, 97, 32, 98, 67, 100, 98, 67, 120, 98, 98>>

\* The example builds with the default options, case-sensitive and unbounded;
\* the entries may be supplied in any order.
InitScenario ==
    /\ InitWith({[i \in 1..Len(ScenarioDictionary) |-> ScenarioDictionary[f[i]]] :
                    f \in Permutations(1..Len(ScenarioDictionary))})
    /\ opts = [case_sensitive |-> TRUE, check_bounds |-> FALSE]

\* find_text_matches is called with the text of the example.
FindTextMatchesScenario ==
    /\ pc = "built"
    /\ haystack' = ScenarioText
    /\ text' = ScanText(opts, ScenarioText)
    /\ idx' = ScanStart.idx
    /\ curr_id' = ScanStart.curr_id
    /\ char_buffer' = ScanStart.char_buffer
    /\ matches' = ScanStart.matches
    /\ found' = "none"
    /\ pc' = "scanning"
    /\ UNCHANGED buildVars
    /\ UNCHANGED restVars

NextScenario ==
    \/ CreatePrefixTree
    \/ AddPatternStep
    \/ ComputeFailureLinksStart
    \/ FailureLinkStep
    \/ FinalizeLinksStep
    \/ FindTextMatchesScenario
    \/ ScanCharStep
    \/ FindTextMatchesReturn

SpecScenario == InitScenario /\ [][NextScenario]_vars

\* ------------------------------------------------------------------ the CLI's dictionary file

\* The characters of a dictionary line: tab, space, 'a' and 'Á'
Tab == 9
Space == 32
LineAlphabet == {Tab, Space, 97, 193}

\* char::is_whitespace on the characters of a line
IsWhitespace(c) == c \in {Tab, Space}

\* What BufRead::lines yields for the files read
Lines == UNION {[1..n -> LineAlphabet] : n \in 0..MaxLineLen}

Files == UNION {[1..n -> Lines] : n \in 0..MaxFileLines}

\* str::split on one character: the parts between the separators, at least
\* one part
RECURSIVE SplitFrom(_, _, _, _)
SplitFrom(s, sep, i, part) ==
    IF i > Len(s) THEN <<part>>
    ELSE IF s[i] = sep THEN <<part>> \o SplitFrom(s, sep, i + 1, << >>)
    ELSE SplitFrom(s, sep, i + 1, Append(part, s[i]))

Split(s, sep) == SplitFrom(s, sep, 1, << >>)

\* str::trim_start and str::trim_end
RECURSIVE TrimStart(_)
TrimStart(s) ==
    IF Len(s) > 0 /\ IsWhitespace(s[1]) THEN TrimStart(Tail(s)) ELSE s

RECURSIVE TrimEnd(_)
TrimEnd(s) ==
    IF Len(s) > 0 /\ IsWhitespace(s[Len(s)])
    THEN TrimEnd(SubSeq(s, 1, Len(s) - 1))
    ELSE s

\* str::trim
Trim(s) == TrimEnd(TrimStart(s))

\* str::replace of one character by another
Replace(s, from, to) == [i \in 1..Len(s) |-> IF s[i] = from THEN to ELSE s[i]]

\* The entry read_dictionary makes of a line, with the columns taken in the
\* other order
ParseLineKeywordFirst(s) ==
    LET parts == Split(s, Tab)
        first == Replace(Trim(parts[1]), Tab, Space)
    IN  IF Len(parts) >= 2
        THEN <<Replace(Trim(parts[2]), Tab, Space), Some(first)>>
        ELSE <<first, None>>

\* The entry read_dictionary makes of a line: the first part is the value,
\* the second part, if there is one, the keyword
ParseLine(s) ==
    LET parts == Split(s, Tab)
        value == Replace(Trim(parts[1]), Tab, Space)
        keyword == IF Len(parts) >= 2
                   THEN Some(Replace(Trim(parts[2]), Tab, Space))
                   ELSE None
    IN  <<value, keyword>>

InitCli ==
    /\ pc = "read_dictionary"
    /\ TrieIdle
    /\ RestInit
    /\ PoolIdle
    /\ RingIdle
    /\ file_lines \in Files
    /\ line_no = 0
    /\ elems = << >>

\* read_dictionary reads the next line of the file and pushes its entry.
ReadLine ==
    /\ pc = "read_dictionary"
    /\ line_no < Len(file_lines)
    /\ elems' = Append(elems, ParseLine(file_lines[line_no + 1]))
    /\ line_no' = line_no + 1
    /\ UNCHANGED <<pc, file_lines>>
    /\ UNCHANGED <<buildVars, scanVars, lookupVars, history, scanners, poolVars, ringVars>>

\* read_dictionary returns the entries; run holds them as the dictionary it
\* gives to create_prefix_tree.
ReadDictionaryReturn ==
    /\ pc = "read_dictionary"
    /\ line_no >= Len(file_lines)
    /\ dictionary' = elems
    /\ pc' = "dictionary_read"
    /\ UNCHANGED <<opts, inserted, nodes, max_pattern_len, queue, built>>
    /\ UNCHANGED <<scanVars, lookupVars, history, scanners, poolVars, cliVars, ringVars>>

NextCli ==
    \/ ReadLine
    \/ ReadDictionaryReturn

SpecCli == InitCli /\ [][NextCli]_vars

\* ------------------------------------------------------------------ the RingBuffer

\* RingBuffer::new
RingBufferNew(capacity) == [values |-> << >>, capacity |-> capacity, pos |-> 0]

\* RingBuffer::push.  With capacity 0 the vector is never shorter than the
\* capacity and values[pos] is out of bounds: panic.
RingBufferPush(b, item) ==
    IF Len(b.values) < b.capacity
    THEN [buffer |-> [b EXCEPT !.values = Append(@, item)], result |-> "Ok"]
    ELSE IF b.pos >= Len(b.values)
         THEN [buffer |-> b, result |-> "panic"]
         ELSE [buffer |-> [b EXCEPT !.values[b.pos + 1] = item,
                                    !.pos = (b.pos + 1) % b.capacity],
               result |-> "Ok"]

\* RingBuffer::len
RingBufferLen(b) == Len(b.values)

\* A get_item that reads the vector from its start, whatever pos is
RingBufferGetItemFromStart(b, index) ==
    IF index >= RingBufferLen(b)
    THEN [item |-> None, result |-> "panic"]
    ELSE [item |-> Some(b.values[index + 1]), result |-> "Ok"]

\* RingBuffer::get_item
RingBufferGetItem(b, index) ==
    IF index >= RingBufferLen(b)
    THEN [item |-> None, result |-> "panic"]
    ELSE LET at == (index + b.pos) % b.capacity
         IN  IF at >= Len(b.values)
             THEN [item |-> None, result |-> "panic"]
             ELSE [item |-> Some(b.values[at + 1]), result |-> "Ok"]

InitRing ==
    /\ pc = "ring_buffer"
    /\ TrieIdle
    /\ RestInit
    /\ PoolIdle
    /\ CliIdle
    /\ \E capacity \in 0..MaxCapacity : ring_buffer = RingBufferNew(capacity)
    /\ pushed_items = << >>
    /\ got = None

\* The owner of the buffer pushes an item.
RingPush ==
    /\ pc = "ring_buffer"
    /\ Len(pushed_items) < MaxPushes
    /\ \E item \in Alphabet :
          LET after == RingBufferPush(ring_buffer, item)
          IN  IF after.result = "Ok"
              THEN /\ ring_buffer' = after.buffer
                   /\ pushed_items' = Append(pushed_items, item)
                   /\ UNCHANGED pc
              ELSE /\ pc' = "panicked"
                   /\ UNCHANGED <<ring_buffer, pushed_items>>
    /\ UNCHANGED got
    /\ UNCHANGED <<buildVars, scanVars, lookupVars, history, scanners, poolVars, cliVars>>

\* The owner of the buffer reads the item at an index; get_item takes &self.
RingGetItem ==
    /\ pc = "ring_buffer"
    /\ \E index \in 0..MaxCapacity :
          LET returned == RingBufferGetItem(ring_buffer, index)
          IN  /\ got' = Some([index |-> index, item |-> returned.item,
                               result |-> returned.result])
              /\ pc' = IF returned.result = "Ok" THEN pc ELSE "panicked"
    /\ UNCHANGED <<ring_buffer, pushed_items>>
    /\ UNCHANGED <<buildVars, scanVars, lookupVars, history, scanners, poolVars, cliVars>>

NextRing ==
    \/ RingPush
    \/ RingGetItem

SpecRing == InitRing /\ [][NextRing]_vars

\* ------------------------------------------------------------------ properties of the scan

\* p occurs in t at offset s
Occurs(p, t, s) ==
    s + Len(p) <= Len(t) /\ SubSeq(t, s + 1, s + Len(p)) = p

\* How many matches of ms span s..e with value v
MatchCount(ms, s, e, v) ==
    Cardinality({k \in 1..Len(ms) :
                    ms[k].start = s /\ ms[k].end = e /\ ms[k].value = v})

\* The patterns of the dictionary held by create_prefix_tree
DictionaryPatterns == {dictionary[i][1] : i \in 1..Len(dictionary)}

\* C1: completeness of the scan.  With case_sensitive = true and check_bounds =
\* false, every occurrence in the text of every pattern of a valid dictionary
\* is returned exactly once.  Stated for normalized (NFC) texts, so that a
\* missing match is never due to the normalization of the text.
ScanFindsEveryOccurrence ==
    (/\ pc = "returned"
     /\ opts.case_sensitive
     /\ ~opts.check_bounds
     /\ \A p \in DictionaryPatterns : Len(p) > 0
     /\ Nfc(haystack) = haystack)
    => \A p \in DictionaryPatterns : \A s \in 0..Len(haystack) :
          Occurs(p, haystack, s) => MatchCount(matches, s, s + Len(p), p) = 1

\* The part of C2 that does not name the dictionary: the offsets of a match
\* lie in the text, its length is that of its value, and the text reads as
\* its value there.
MatchSpansItsValue(m) ==
    /\ 0 <= m.start
    /\ m.start <= m.end
    /\ m.end <= Len(text)
    /\ m.end - m.start = Len(m.value)
    /\ SubSeq(text, m.start + 1, m.end) = m.value

\* C2 as written: every match returned spans its value in the (lower-cased)
\* text and its value is a pattern of the dictionary.
MatchValueIsDictionaryPattern ==
    \A k \in 1..Len(matches) :
        /\ MatchSpansItsValue(matches[k])
        /\ matches[k].value \in DictionaryPatterns

\* C2 as amended: every match returned spans its value in the (lower-cased)
\* text and its value is the normalized (NFC) form of a pattern of the
\* dictionary, lower-cased when case_sensitive is false.
MatchesAreSound ==
    \A k \in 1..Len(matches) :
        /\ MatchSpansItsValue(matches[k])
        /\ matches[k].value \in {Nfc(p) : p \in DictionaryPatterns}

\* A scan of a text with upper case, under case_sensitive = false, returned
\* a match that starts after the beginning of the text.
SoundMatchReturned ==
    /\ pc = "returned"
    /\ ~opts.case_sensitive
    /\ haystack # text
    /\ \E k \in 1..Len(matches) : matches[k].start > 0 /\ Len(matches[k].value) > 1

\* C3: the matches are returned in non-decreasing order of their end; among
\* the matches with one end the longest comes first and the lengths strictly
\* decrease.
MatchesOrderedByEnd ==
    \A k \in 1..(Len(matches) - 1) :
        /\ matches[k].end <= matches[k + 1].end
        /\ matches[k].end = matches[k + 1].end
              => Len(matches[k].value) > Len(matches[k + 1].value)

\* A scan returned two matches with the same end after a match with a smaller end.
TiedMatchesReturned ==
    /\ pc = "returned"
    /\ \E k \in 2..(Len(matches) - 1) :
          /\ matches[k].end = matches[k + 1].end
          /\ matches[k - 1].end < matches[k].end

\* The positions next to m in the text hold no word character (or lie
\* outside the text).
FlankedInText(m) ==
    /\ m.start = 0 \/ ~IsWordChar(text[m.start])
    /\ m.end = Len(text) \/ ~IsWordChar(text[m.end + 1])

\* C4: with check_bounds = true every match returned has no word character
\* (alphanumeric or underscore) right before its start and right after its end.
BoundedMatchesAreFlanked ==
    opts.check_bounds => \A k \in 1..Len(matches) : FlankedInText(matches[k])

\* A bounded scan returned a match with a character on either side.
FlankedMatchReturned ==
    /\ pc = "returned"
    /\ opts.check_bounds
    /\ \E k \in 1..Len(matches) : matches[k].start > 0 /\ matches[k].end < Len(text)

\* The scan of the same text by the same tree without the bound check.
UnboundedScan ==
    FindTextMatches(nodes, [opts EXCEPT !.check_bounds = FALSE], max_pattern_len, haystack)

\* C5: the list returned with check_bounds = true is the list returned with
\* check_bounds = false restricted to the flanked matches, in the same
\* order, and both scans end in the same node.
BoundedScanFiltersUnbounded ==
    (pc = "returned" /\ opts.check_bounds)
    => /\ matches = SelectSeq(UnboundedScan.matches, FlankedInText)
       /\ curr_id = UnboundedScan.curr_id

\* A bounded scan returned some of the matches of the unbounded scan and
\* dropped others, one match kept starting the text.
BoundedScanDroppedSome ==
    /\ pc = "returned"
    /\ opts.check_bounds
    /\ Len(matches) > 0
    /\ Len(matches) < Len(UnboundedScan.matches)
    /\ \E k \in 1..Len(matches) : matches[k].start = 0

\* How many matches of ms have the start, end and keyword of m
TripleCount(ms, m) ==
    Cardinality({k \in 1..Len(ms) :
                    ms[k].start = m.start /\ ms[k].end = m.end /\ ms[k].kw = m.kw})

\* The multisets of (start, end, keyword) of two lists of matches are equal.
SameTriples(ms, ns) ==
    /\ \A k \in 1..Len(ms) : TripleCount(ms, ms[k]) = TripleCount(ns, ms[k])
    /\ \A k \in 1..Len(ns) : TripleCount(ms, ns[k]) = TripleCount(ns, ns[k])

\* C6: under case_sensitive = false the scan of a text returns the same
\* multiset of (start, end, keyword) as the scan of the lower-cased text.
ScanIgnoresCase ==
    (pc = "returned" /\ ~opts.case_sensitive)
    => SameTriples(matches,
                   FindTextMatches(nodes, opts, max_pattern_len, ToLowercase(haystack)).matches)

\* A case-insensitive scan of a text that is not in lower case returned a
\* match whose keyword was supplied with the pattern.
UpperCaseTextMatched ==
    /\ pc = "returned"
    /\ ~opts.case_sensitive
    /\ haystack # ToLowercase(haystack)
    /\ \E k \in 1..Len(matches) : matches[k].kw # matches[k].value

\* Every node identifier stored in the tree (edge targets, failure links,
\* dictionary links) is smaller than the node count.
NodeIdsInRange(ns) ==
    \A i \in 1..Len(ns) :
        /\ \A l \in 1..Len(ns[i].nxt) : ns[i].nxt[l][2] < Len(ns)
        /\ IsSome(ns[i].fail_to) => Unwrap(ns[i].fail_to) < Len(ns)
        /\ IsSome(ns[i].dct_to) => Unwrap(ns[i].dct_to) < Len(ns)

\* C11: on a tree returned by create_prefix_tree the scan of any text never
\* fails (no MissingLink, no InvalidNodeId, no panic) and returns Ok, and
\* every node identifier it can dereference is smaller than the node count.
ScanNeverFails ==
    pc \in {"built", "scanning", "scan_failed", "returned"}
    => /\ pc # "scan_failed"
       /\ found \in {"none", "Ok"}
       /\ pc = "returned" => found = "Ok"
       /\ curr_id < Len(nodes)
       /\ NodeIdsInRange(nodes)

\* A scan returned Ok after it left a node through a failure link that does
\* not lead to the root, and ends in a node other than the root.
ScanFollowedFailureLinks ==
    /\ pc = "returned"
    /\ found = "Ok"
    /\ Len(matches) > 0
    /\ curr_id # RootNodeId
    /\ Unwrap(nodes[curr_id + 1].fail_to) # RootNodeId

\* The text handed to find_text_matches, lower-cased when case_sensitive is
\* false and otherwise character for character as the caller supplied it
GivenText == IF ~opts.case_sensitive THEN ToLowercase(haystack) ELSE haystack

\* C22 as written: the scan normalizes the text, so the occurrences of the
\* normalized pattern in the normalized text are found.  Stated for
\* dictionaries of one non-empty pattern, case-sensitive and unbounded.
ScanNormalizesText ==
    (/\ pc = "returned"
     /\ Len(dictionary) = 1
     /\ Len(dictionary[1][1]) > 0
     /\ opts.case_sensitive
     /\ ~opts.check_bounds)
    => \A s \in 0..Len(Nfc(haystack)) :
          Occurs(Nfc(dictionary[1][1]), Nfc(haystack), s)
          => \E k \in 1..Len(matches) : matches[k].value = Nfc(dictionary[1][1])

\* C22 as amended: the build normalizes the patterns and the scan reads the
\* text as supplied.  Every match returned has a normalized (NFC) value, and
\* the text as the caller supplied it (lower-cased when case_sensitive is
\* false, never normalized) reads as that value over the span of the match.
ScanReadsTextAsGiven ==
    pc = "returned"
    => \A k \in 1..Len(matches) :
          /\ Nfc(matches[k].value) = matches[k].value
          /\ 0 <= matches[k].start
          /\ matches[k].end <= Len(GivenText)
          /\ SubSeq(GivenText, matches[k].start + 1, matches[k].end)
                = matches[k].value

\* A pattern supplied in decomposed form was matched in a text that is not
\* normalized: at its composed occurrence, not at its decomposed one.
DecomposedPatternMatched ==
    /\ pc = "returned"
    /\ Nfc(haystack) # haystack
    /\ \E i \in 1..Len(dictionary) :
          /\ Nfc(dictionary[i][1]) # dictionary[i][1]
          /\ \E k \in 1..Len(matches) : matches[k].value = Nfc(dictionary[i][1])

\* The match of value v starting at s, for an entry without a keyword
ScenarioMatch(v, s) == [kw |-> v, value |-> v, start |-> s, end |-> s + Len(v)]

\* m is among the matches returned
Returned(m) == \E k \in 1..Len(matches) : matches[k] = m

\* C23 as written: the scan of the example returns a at 8, a at 46, abb at
\* 46, bb at 47, a at 49, a at 50, and a match of Cxaabb ending at index 52.
ScenarioReturnsCxaabb ==
    (pc = "returned" /\ haystack = ScenarioText)
    => /\ Returned(ScenarioMatch(<<97>>, 8))
       /\ Returned(ScenarioMatch(<<97>>, 46))
       /\ Returned(ScenarioMatch(<<97, 98, 98>>, 46))
       /\ Returned(ScenarioMatch(<<98, 98>>, 47))
       /\ Returned(ScenarioMatch(<<97>>, 49))
       /\ Returned(ScenarioMatch(<<97>>, 50))
       /\ \E k \in 1..Len(matches) :
             /\ matches[k].value = <<67, 120, 97, 97, 98, 98>>
             /\ matches[k].end \in {52, 53}

\* The matches of the example, in the order returned
ScenarioMatches ==
    <<ScenarioMatch(<<97>>, 8),
      ScenarioMatch(<<97>>, 46),
      ScenarioMatch(<<97, 98, 98>>, 46),
      ScenarioMatch(<<98, 98>>, 47),
      ScenarioMatch(<<97>>, 49),
      ScenarioMatch(<<97>>, 50),
      ScenarioMatch(<<97>>, 53),
      ScenarioMatch(<<98, 67, 100>>, 55),
      ScenarioMatch(<<98, 67, 120>>, 58),
      ScenarioMatch(<<98, 98>>, 61)>>

\* C23 as amended: the scan of the example returns exactly a at 8, a at 46,
\* abb at 46, bb at 47, a at 49, a at 50, a at 53, bCd at 55, bCx at 58 and
\* bb at 61, in this order, and no match of Cxaabb, which the text does not
\* contain.
ScenarioReturnsItsOccurrences ==
    (pc = "returned" /\ haystack = ScenarioText)
    => /\ found = "Ok"
       /\ matches = ScenarioMatches

\* The scan of the example ended and returned abb at 46 with the bb nested
\* in it.
ScenarioScanned ==
    /\ pc = "returned"
    /\ haystack = ScenarioText
    /\ Len(dictionary) = Len(ScenarioDictionary)
    /\ Returned(ScenarioMatch(<<97, 98, 98>>, 46))
    /\ Returned(ScenarioMatch(<<98, 98>>, 47))

\* The node whose path is the longest suffix of the first n characters of txt
\* that is a path of the tree ns; the root when only the empty suffix is one.
TextSuffixNode(ns, txt, n) ==
    LET starts == {k \in 1..n : IsSome(NodeByPath(ns, SubSeq(txt, k, n)).node_id)}
    IN  IF starts = {} THEN RootNodeId
        ELSE LET k == CHOOSE j \in starts : \A i \in starts : j <= i
             IN  Unwrap(NodeByPath(ns, SubSeq(txt, k, n)).node_id)

Folded(o, p) == IF ~o.case_sensitive THEN ToLowercase(p) ELSE p

HasEmptyPattern(d) == \E i \in 1..Len(d) : Len(d[i][1]) = 0

\* Two entries of d have the same pattern, after case folding
HasDuplicatePattern(d, o) ==
    \E i, j \in 1..Len(d) : i < j /\ Folded(o, d[i][1]) = Folded(o, d[j][1])

\* C7: create_prefix_tree called with an empty dictionary returns
\* Err(InvalidDictionary), under any options, and builds no tree.
EmptyDictionaryRejected ==
    [][(pc = "create" /\ Len(dictionary) = 0)
       => (pc' = "failed" /\ built' = "InvalidDictionary" /\ nodes' = << >>)]_vars

\* create_prefix_tree returned InvalidDictionary for the empty dictionary.
EmptyDictionaryFailed ==
    /\ pc = "failed"
    /\ Len(dictionary) = 0
    /\ built = "InvalidDictionary"
    /\ nodes = << >>

\* C8: create_prefix_tree returns Err(InvalidDictionary) for every dictionary
\* that contains an empty pattern.  Stated for the dictionaries whose
\* patterns are pairwise distinct, where no other error competes.
EmptyPatternRejected ==
    (/\ pc \in {"built", "failed"}
     /\ HasEmptyPattern(dictionary)
     /\ ~HasDuplicatePattern(dictionary, opts))
    => built = "InvalidDictionary"

\* C9: create_prefix_tree called with non-empty patterns, two of which are
\* equal (after lower-casing when case_sensitive is false), returns
\* Err(DuplicateNode), wherever the two stand and whatever their keywords.
DuplicatePatternRejected ==
    [][(/\ pc = "create"
        /\ ~HasEmptyPattern(dictionary)
        /\ HasDuplicatePattern(dictionary, opts))
       => (pc' = "failed" /\ built' = "DuplicateNode")]_vars

\* create_prefix_tree returned DuplicateNode for two entries that have the
\* same pattern and different keywords.
DuplicateWithOtherKeywordFailed ==
    /\ pc = "failed"
    /\ built = "DuplicateNode"
    /\ ~HasEmptyPattern(dictionary)
    /\ \E i, j \in 1..Len(dictionary) :
          /\ i < j
          /\ dictionary[i][1] = dictionary[j][1]
          /\ dictionary[i][2] # dictionary[j][2]

\* A dictionary create_prefix_tree has to accept
ValidDictionary(d, o) ==
    /\ Len(d) > 0
    /\ ~HasEmptyPattern(d)
    /\ ~HasDuplicatePattern(d, o)

\* C10: on a non-empty dictionary of non-empty patterns, pairwise distinct
\* after case folding, create_prefix_tree never fails: no InvalidNodeId, no
\* MissingLink, no panic, and what it returns is Ok.
ValidDictionaryBuilds ==
    ValidDictionary(dictionary, opts)
    => /\ pc # "failed"
       /\ built \in {"none", "Ok"}
       /\ pc = "built" => built = "Ok"

\* create_prefix_tree returned Ok for a valid dictionary whose tree has a
\* failure link to a node other than the root and a dictionary link.
ValidDictionaryBuilt ==
    /\ pc = "built"
    /\ built = "Ok"
    /\ ValidDictionary(dictionary, opts)
    /\ \E i \in 1..Len(nodes) :
          /\ IsSome(nodes[i].fail_to)
          /\ Unwrap(nodes[i].fail_to) # RootNodeId
          /\ IsSome(nodes[i].dct_to)

\* The parent of node id and the character of the edge from it
ParentEdge(ns, id) ==
    CHOOSE e \in (0..(Len(ns) - 1)) \X Alphabet :
        \E l \in 1..Len(ns[e[1] + 1].nxt) : ns[e[1] + 1].nxt[l] = <<e[2], id>>

\* The path of node id: the characters of the edges from the root to it
RECURSIVE PathOf(_, _)
PathOf(ns, id) ==
    IF id = RootNodeId THEN << >>
    ELSE Append(PathOf(ns, ParentEdge(ns, id)[1]), ParentEdge(ns, id)[2])

\* The node whose path is the longest proper suffix of the path of node id
\* that is a path of the tree; the root when only the empty suffix is one.
LongestSuffixNode(ns, id) ==
    LET p == PathOf(ns, id)
        starts == {k \in 2..Len(p) : IsSome(NodeByPath(ns, SubSeq(p, k, Len(p))).node_id)}
    IN  IF starts = {} THEN RootNodeId
        ELSE LET k == CHOOSE j \in starts : \A i \in starts : j <= i
             IN  Unwrap(NodeByPath(ns, SubSeq(p, k, Len(p))).node_id)

Reorderings(d) ==
    {[i \in 1..Len(d) |-> d[f[i]]] : f \in Permutations(1..Len(d))}

\* C16: the tree built from the entries of a valid dictionary taken in any
\* other order has the same number of nodes and returns, for the text
\* scanned, the same list of matches.
BuildIgnoresEntryOrder ==
    (pc = "returned" /\ ValidDictionary(dictionary, opts))
    => \A d \in Reorderings(dictionary) :
          LET other == CreatePrefixTreeOf(d, opts)
          IN  /\ other.result = "Ok"
              /\ Len(other.nodes) = Len(nodes)
              /\ FindTextMatches(other.nodes, opts, other.max_pattern_len,
                                 haystack).matches = matches

\* A scan returned matches from the tree of a valid dictionary in which one
\* pattern is a proper prefix of another.
PrefixPatternsMatched ==
    /\ pc = "returned"
    /\ ValidDictionary(dictionary, opts)
    /\ Len(matches) > 1
    /\ \E i, j \in 1..Len(dictionary) :
          /\ Len(dictionary[i][1]) < Len(dictionary[j][1])
          /\ SubSeq(dictionary[j][1], 1, Len(dictionary[i][1])) = dictionary[i][1]

\* The failure chain of node id: fail_to(id), fail_to(fail_to(id)), ... up to
\* but without the root; it is cut after fuel nodes and where a link is unset.
RECURSIVE FailChainFrom(_, _, _)
FailChainFrom(ns, id, fuel) ==
    IF fuel = 0 \/ id >= Len(ns) \/ ~IsSome(ns[id + 1].fail_to) THEN << >>
    ELSE LET to == Unwrap(ns[id + 1].fail_to)
         IN  IF to = RootNodeId \/ to >= Len(ns) THEN << >>
             ELSE <<to>> \o FailChainFrom(ns, to, fuel - 1)

FailChain(ns, id) == FailChainFrom(ns, id, Len(ns))

\* The nodes of a sequence of node ids that carry a value, in its order
Terminators(ns, ids) == SelectSeq(ids, LAMBDA n : IsSome(ns[n + 1].value))

\* C25: after a successful build the root has no dictionary link, and the
\* dictionary link of any other node is the first node of its failure chain
\* (the root left out) that carries a value, and is absent when the chain has
\* none; it is neither the node itself nor the root.
DictLinksAreFirstTerminators ==
    pc = "built"
    => /\ nodes[RootNodeId + 1].dct_to = None
       /\ \A id \in 1..(Len(nodes) - 1) :
             LET firsts == Terminators(nodes, FailChain(nodes, id))
             IN  /\ nodes[id + 1].dct_to =
                        IF firsts = << >> THEN None ELSE Some(firsts[1])
                 /\ nodes[id + 1].dct_to # Some(id)
                 /\ nodes[id + 1].dct_to # Some(RootNodeId)

\* A tree was built in which the dictionary link of a node passes over the
\* node its failure link leads to, which carries no value.
DictLinkSkipsFailureNode ==
    /\ pc = "built"
    /\ \E id \in 1..(Len(nodes) - 1) :
          /\ IsSome(nodes[id + 1].dct_to)
          /\ IsSome(nodes[id + 1].fail_to)
          /\ nodes[id + 1].dct_to # nodes[id + 1].fail_to

\* The dictionary chain of node id: dct_to(id), dct_to(dct_to(id)), ... up to
\* but without the root; it is cut after fuel nodes and where a link is unset.
RECURSIVE DictChainFrom(_, _, _)
DictChainFrom(ns, id, fuel) ==
    IF fuel = 0 \/ id >= Len(ns) \/ ~IsSome(ns[id + 1].dct_to) THEN << >>
    ELSE LET to == Unwrap(ns[id + 1].dct_to)
         IN  IF to = RootNodeId \/ to >= Len(ns) THEN << >>
             ELSE <<to>> \o DictChainFrom(ns, to, fuel - 1)

DictChain(ns, id) == DictChainFrom(ns, id, Len(ns))

\* A walk from a state: the state itself, unless it is the root, and then
\* the chain given
WalkFrom(id, chain) == IF id = RootNodeId THEN << >> ELSE <<id>> \o chain

\* The value and keyword a node with a value reports
Candidate(ns, id) == <<Unwrap(ns[id + 1].value), Unwrap(ns[id + 1].keyword)>>

\* C27: in a built tree, from every node, and so from every state the
\* scanner reaches, the nodes with a value met along the dictionary links
\* are those met along the failure links, in the same order; and the match
\* loop of find_text_matches, started at the node, reports the candidates of
\* the walk along the failure links.
DictWalkEqualsFailureWalk ==
    pc = "built"
    => \A id \in 0..(Len(nodes) - 1) :
          LET walked == Terminators(nodes, WalkFrom(id, FailChain(nodes, id)))
              shown == CollectMatches(nodes, [opts EXCEPT !.check_bounds = FALSE],
                                      id, max_pattern_len, << >>, None,
                                      << >>).matches
          IN  /\ Terminators(nodes, WalkFrom(id, DictChain(nodes, id))) = walked
              /\ Len(shown) = Len(walked)
              /\ \A k \in 1..Len(walked) :
                    <<shown[k].value, shown[k].kw>> = Candidate(nodes, walked[k])

\* A tree was built with a node from which the walk along the failure links
\* meets two nodes with a value and, between them, a node without one, which
\* the dictionary links pass over.
ShortcutPassesOverNode ==
    /\ pc = "built"
    /\ \E id \in 1..(Len(nodes) - 1) :
          /\ Len(Terminators(nodes, WalkFrom(id, FailChain(nodes, id)))) >= 2
          /\ Len(DictChain(nodes, id)) < Len(FailChain(nodes, id))
          /\ IsSome(nodes[id + 1].value)

\* The depth of node id: the length of its path
Depth(ns, id) == Len(PathOf(ns, id))

\* C28: while compute_failure_links runs, the children named by the triples
\* of the queue are in non-decreasing depth from front to back and at most
\* one level deeper than the one at the front, so that triples are dequeued
\* in non-decreasing depth; every node shallower than the one at the front
\* has its failure link; and the construction never ends with MissingLink.
QueueInBreadthFirstOrder ==
    /\ built # "MissingLink"
    /\ pc = "failure_links"
       => /\ \A i, j \in 1..Len(queue) :
                i < j => Depth(nodes, queue[i][2]) <= Depth(nodes, queue[j][2])
          /\ \A j \in 1..Len(queue) :
                Depth(nodes, queue[j][2]) <= Depth(nodes, queue[1][2]) + 1
          /\ Len(queue) > 0
             => \A id \in 1..(Len(nodes) - 1) :
                   Depth(nodes, id) < Depth(nodes, queue[1][2])
                   => IsSome(nodes[id + 1].fail_to)

\* The triple at the front of the queue names a node whose parent's failure
\* link leads to a node, not the root, without an edge on the triple's
\* character: the probe loop is about to read that node's failure link.
ProbeAboutToReadFailureLink ==
    /\ pc = "failure_links"
    /\ Len(queue) > 0
    /\ queue[1][1] # RootNodeId
    /\ IsSome(nodes[queue[1][1] + 1].fail_to)
    /\ LET check_id == Unwrap(nodes[queue[1][1] + 1].fail_to)
       IN  /\ check_id # RootNodeId
           /\ ~IsSome(FollowLink(nodes[check_id + 1], queue[1][3]))

\* Node id is the child named by a triple of the queue
InQueue(id) == \E i \in 1..Len(queue) : queue[i][2] = id

\* Node id, not the root, has its failure link
Linked(id) == IsSome(nodes[id + 1].fail_to)

\* Where every node stands during the construction: the root never has a
\* failure link; no node has one before compute_failure_links runs; while it
\* runs no node is named twice in the queue, a node in the queue has no link
\* yet, and a node is in the queue or linked exactly when its parent is the
\* root or is linked; once the queue is empty, and in the tree returned,
\* every node but the root is linked; finalize_links never panics.
FailureLinksAccounted ==
    /\ built # "panic"
    /\ Len(nodes) > 0 => ~Linked(RootNodeId)
    /\ pc \in {"create", "add_patterns"}
       => \A id \in 1..(Len(nodes) - 1) : ~Linked(id)
    /\ pc = "failure_links"
       => /\ \A i, j \in 1..Len(queue) : i < j => queue[i][2] # queue[j][2]
          /\ \A i \in 1..Len(queue) :
                /\ queue[i][2] \in 1..(Len(nodes) - 1)
                /\ ~Linked(queue[i][2])
          /\ \A id \in 1..(Len(nodes) - 1) :
                LET parent == ParentEdge(nodes, id)[1]
                IN  (InQueue(id) \/ Linked(id))
                    <=> (parent = RootNodeId \/ Linked(parent))
    /\ (pc = "failure_links" /\ Len(queue) = 0) \/ pc = "built"
       => \A id \in 1..(Len(nodes) - 1) : Linked(id)

\* What a step of the construction does to the failure links: a link once
\* set is never written again with another target, and an iteration of
\* compute_failure_links that succeeds dequeues one triple and links the
\* node it names, and no other.
FailureLinkWrittenOnDequeue ==
    /\ \A i \in 1..Len(nodes) :
          IsSome(nodes[i].fail_to)
          => i <= Len(nodes') /\ nodes'[i].fail_to = nodes[i].fail_to
    /\ (pc = "failure_links" /\ pc' = "failure_links" /\ Len(queue) > 0)
       => /\ Len(nodes') = Len(nodes)
          /\ {i \in 1..Len(nodes) :
                 ~IsSome(nodes[i].fail_to) /\ IsSome(nodes'[i].fail_to)}
                = {queue[1][2] + 1}
          /\ \A id \in 1..(Len(nodes) - 1) :
                Cardinality({i \in 1..Len(queue') : queue'[i][2] = id})
                   <= Cardinality({i \in 1..Len(queue) : queue[i][2] = id})
                      + (IF ParentEdge(nodes, id)[1] = queue[1][2] THEN 1 ELSE 0)

\* C29: during the construction every node but the root is enqueued once,
\* dequeued once and has its failure link written once, on being dequeued;
\* when the queue is empty every node but the root has a failure link and
\* the root has none, and finalize_links does not panic.
FailureLinksSetOnce ==
    [][FailureLinksAccounted /\ FailureLinksAccounted' /\ FailureLinkWrittenOnDequeue]_vars

\* compute_failure_links emptied its queue on a tree of at least three
\* nodes, one of them with a failure link to a node that is not the root.
FailureLinksAllSet ==
    /\ pc = "failure_links"
    /\ Len(queue) = 0
    /\ Len(nodes) >= 3
    /\ \E id \in 1..(Len(nodes) - 1) :
          IsSome(nodes[id + 1].fail_to) /\ nodes[id + 1].fail_to # Some(RootNodeId)

\* C30: in every state of the construction and in the tree returned, the
\* failure link and the dictionary link of a node, where set, lead to a node
\* of smaller depth; so the chain of failure links and the chain of
\* dictionary links from a node pass through fewer nodes other than the root
\* than the node's depth, and never through the node itself.
LinksDecreaseDepth ==
    \A id \in 1..(Len(nodes) - 1) :
        /\ IsSome(nodes[id + 1].fail_to)
           => /\ Unwrap(nodes[id + 1].fail_to) < Len(nodes)
              /\ Depth(nodes, Unwrap(nodes[id + 1].fail_to)) < Depth(nodes, id)
        /\ IsSome(nodes[id + 1].dct_to)
           => /\ Unwrap(nodes[id + 1].dct_to) < Len(nodes)
              /\ Depth(nodes, Unwrap(nodes[id + 1].dct_to)) < Depth(nodes, id)
        /\ Len(FailChain(nodes, id)) < Depth(nodes, id)
        /\ Len(DictChain(nodes, id)) < Depth(nodes, id)
        /\ \A k \in 1..Len(FailChain(nodes, id)) : FailChain(nodes, id)[k] # id
        /\ \A k \in 1..Len(DictChain(nodes, id)) : DictChain(nodes, id)[k] # id

\* A tree was returned with a node whose failure link leads to a node of
\* depth two or more and whose dictionary link leads to a shallower one.
LinksLeadToShallowerNodes ==
    /\ pc = "built"
    /\ \E id \in 1..(Len(nodes) - 1) :
          /\ IsSome(nodes[id + 1].fail_to)
          /\ IsSome(nodes[id + 1].dct_to)
          /\ Depth(nodes, Unwrap(nodes[id + 1].fail_to)) >= 2
          /\ Depth(nodes, Unwrap(nodes[id + 1].dct_to))
                < Depth(nodes, Unwrap(nodes[id + 1].fail_to))

\* The patterns add_pattern has inserted so far, as it stores them
InsertedPatterns == {Nfc(dictionary[i][1]) : i \in 1..inserted}

\* C32: after every insertion and in the tree returned, for a valid
\* dictionary, a node has a value exactly when its path spells a pattern
\* already inserted, and the value is the path; it has a keyword exactly when
\* it has a value; its pattern_len is the character count of its value, and 0
\* without a value.
TerminatorsAreTagged ==
    (pc \in {"add_patterns", "failure_links", "built"}
     /\ ValidDictionary(dictionary, opts))
    => \A id \in 0..(Len(nodes) - 1) :
          /\ IsSome(nodes[id + 1].value) <=> PathOf(nodes, id) \in InsertedPatterns
          /\ IsSome(nodes[id + 1].value)
             => Unwrap(nodes[id + 1].value) = PathOf(nodes, id)
          /\ IsSome(nodes[id + 1].keyword) <=> IsSome(nodes[id + 1].value)
          /\ nodes[id + 1].pattern_len =
                IF IsSome(nodes[id + 1].value)
                THEN Len(Unwrap(nodes[id + 1].value)) ELSE 0

\* The edges of ns that lead to node id, as <<parent, position>>
EdgesTo(ns, id) ==
    {e \in (0..(Len(ns) - 1)) \X (1..Len(ns)) :
        /\ e[2] <= Len(ns[e[1] + 1].nxt)
        /\ ns[e[1] + 1].nxt[e[2]][2] = id}

EdgesAscendingBeforeFinalize ==
    (pc \in {"add_patterns", "failure_links"} /\ ValidDictionary(dictionary, opts))
    => \A id \in 0..(Len(nodes) - 1) :
          /\ \A k \in 1..(Len(nodes[id + 1].nxt) - 1) :
                nodes[id + 1].nxt[k][1] < nodes[id + 1].nxt[k + 1][1]
          /\ \A ch \in Alphabet :
                IsSome(FollowLink(nodes[id + 1], ch))
                   <=> \E k \in 1..Len(nodes[id + 1].nxt) : nodes[id + 1].nxt[k][1] = ch
          /\ SortLinks(nodes[id + 1].nxt) = nodes[id + 1].nxt

\* The node the path p leads to in ns, if there is one
WalkedTo(ns, p) == NodeByPath(ns, p).node_id

\* add_pattern has just consumed entry inserted + 1 of a valid dictionary
InsertionOfValidEntry ==
    /\ pc = "add_patterns"
    /\ inserted' = inserted + 1
    /\ ValidDictionary(dictionary, opts)

\* C39: when add_pattern inserts an entry of a valid dictionary, the path of
\* the pattern is not in the tree yet, and the insertion creates a node at
\* the end of that path which carries the pattern as its value and the
\* keyword of the entry (the pattern when it has none).
InsertionCreatesTerminator ==
    [][InsertionOfValidEntry
       => LET pattern == Nfc(dictionary[inserted + 1][1])
              kw == dictionary[inserted + 1][2]
          IN  /\ WalkedTo(nodes, pattern) = None
              /\ Len(nodes') > Len(nodes)
              /\ WalkedTo(nodes', pattern) = Some(Len(nodes') - 1)
              /\ nodes'[Len(nodes')].value = Some(pattern)
              /\ nodes'[Len(nodes')].keyword
                    = Some(IF IsSome(kw) THEN Unwrap(kw) ELSE pattern)]_vars

\* ------------------------------------------------------------------ properties of repeated scans

\* C17: no step of find_text_matches changes the nodes, the options or
\* max_pattern_len of the tree, and a scan of a text scanned before returns
\* Ok with the list of matches returned before.
ScanLeavesTreeUnchanged ==
    [][/\ pc \in {"built", "scanning", "returned"}
          => (nodes' = nodes /\ opts' = opts /\ max_pattern_len' = max_pattern_len)
       /\ pc' # "scan_failed"
       /\ pc' = "returned"
          => \A h \in 1..Len(history') :
                history'[h].haystack = haystack' => history'[h].matches = matches']_vars

\* A text was scanned a second time and the scan returned matches.
SameTextScannedTwice ==
    /\ pc = "returned"
    /\ Len(history) > 0
    /\ history[1].haystack = haystack
    /\ Len(matches) > 0

\* C18: under every interleaving of the steps of the threads that scan one
\* tree, no scan fails and every scan returns the list of matches that
\* find_text_matches returns for its text when it runs alone.
ConcurrentScansAgreeWithLoneScans ==
    \A th \in Scanners :
        /\ scanners[th].pc # "scan_failed"
        /\ scanners[th].pc = "returned"
           => /\ scanners[th].found = "Ok"
              /\ scanners[th].matches
                    = FindTextMatches(nodes, opts, max_pattern_len,
                                      scanners[th].haystack).matches

\* One thread has returned matches for its text while another, scanning a
\* different text, has found matches and is not done.
ScannersInterleaved ==
    \E th, other \in Scanners :
        /\ scanners[th].pc = "returned"
        /\ Len(scanners[th].matches) > 0
        /\ scanners[other].pc = "scanning"
        /\ scanners[other].idx > 0
        /\ scanners[other].idx < Len(scanners[other].text)
        /\ Len(scanners[other].matches) > 0
        /\ scanners[other].haystack # scanners[th].haystack

\* The non-empty prefixes of the patterns of d as the tree stores them
StoredPrefixes(d) ==
    UNION {{SubSeq(Nfc(d[i][1]), 1, k) : k \in 1..Len(Nfc(d[i][1]))} : i \in 1..Len(d)}

\* The nodes of ns that carry a value
ValueNodes(ns) == {i \in 1..Len(ns) : IsSome(ns[i].value)}

\* C21: the tree built from a valid dictionary has one node for the root and
\* one for every distinct non-empty prefix of the (lower-cased, normalized)
\* patterns, and as many nodes with a value as the dictionary has entries.
TreeHasNodePerPrefixAndEntry ==
    (pc = "built" /\ ValidDictionary(dictionary, opts))
    => /\ Len(nodes) = 1 + Cardinality(StoredPrefixes(dictionary))
       /\ Cardinality(ValueNodes(nodes)) = Len(dictionary)

\* ------------------------------------------------------------------ properties of the keywords

\* C13: a match of a pattern whose entry has no keyword reports the pattern
\* itself as its keyword.  Stated for case_sensitive = true and valid
\* dictionaries, where the patterns are kept as they are given.
DefaultKeywordIsPattern ==
    (/\ pc = "returned"
     /\ opts.case_sensitive
     /\ ValidDictionary(dictionary, opts))
    => \A k \in 1..Len(matches) : \A i \in 1..Len(dictionary) :
          (dictionary[i][2] = None /\ matches[k].value = dictionary[i][1])
          => matches[k].kw = dictionary[i][1]

\* C14: a match of a pattern whose entry has a keyword reports that keyword,
\* unchanged.  Stated for valid dictionaries.
SuppliedKeywordIsReported ==
    (pc = "returned" /\ ValidDictionary(dictionary, opts))
    => \A k \in 1..Len(matches) : \A i \in 1..Len(dictionary) :
          (IsSome(dictionary[i][2]) /\ matches[k].value = dictionary[i][1])
          => matches[k].kw = Unwrap(dictionary[i][2])

\* ------------------------------------------------------------------ properties of the lookup

\* The node node_by_path returned
LookedUpNode == nodes[Unwrap(looked_up.node_id) + 1]

\* C12: in a tree built from a valid dictionary, node_by_path(P) of a pattern
\* P of the dictionary returns a node whose value is P and whose keyword is
\* the keyword of P's entry (P itself when the entry has none).  Stated for
\* case_sensitive = true and normalized (NFC) patterns, which the tree stores
\* as they are given.
NodeByPathFindsPattern ==
    (/\ pc = "looked_up"
     /\ opts.case_sensitive
     /\ ValidDictionary(dictionary, opts)
     /\ Nfc(path) = path)
    => \A i \in 1..Len(dictionary) :
          dictionary[i][1] = path
          => /\ looked_up.result = "Ok"
             /\ IsSome(looked_up.node_id)
             /\ LookedUpNode.value = Some(path)
             /\ LookedUpNode.keyword
                   = Some(IF IsSome(dictionary[i][2]) THEN Unwrap(dictionary[i][2]) ELSE path)

\* The paths node_by_path is examined on: the paths looked up, the prefixes
\* of the stored patterns, and each of them extended by one character.
ExaminedPaths ==
    LET base == LookupPaths \cup StoredPrefixes(dictionary)
    IN  base \cup {Append(p, c) : p \in base, c \in Alphabet}

\* The nodes of ns other than the root whose path is p
NodesWithPath(ns, p) == {id \in 1..(Len(ns) - 1) : PathOf(ns, id) = p}

\* What node_by_path(p) has to return on the tree built from the dictionary
PrefixNode(p) ==
    IF p \in StoredPrefixes(dictionary)
    THEN {[node_id |-> Some(id), result |-> "Ok"] : id \in NodesWithPath(nodes, p)}
    ELSE {[node_id |-> None, result |-> "Ok"]}

ParallelApplyKeepsOrder ==
    pc = "applied"
    => /\ Len(output) = Len(items)
       /\ \A i \in 1..Len(items) : output[i] = Apply(mapping, items[i])
       /\ \A v \in ItemValues :
             calls[v] = Cardinality({i \in 1..Len(items) : items[i] = v})

\* The outputs of the first thread are joined while the next thread still
\* runs and a later one has finished.
LaterThreadFinishedFirst ==
    /\ pc = "joining"
    /\ joined > 0
    /\ joined < Len(handles)
    /\ Len(output) > 0
    /\ ~handles[joined + 1].finished
    /\ \E w \in (joined + 2)..Len(handles) : handles[w].finished

\* The threads spawned, the caller alone counting for none
ThreadsUsed == Len(handles)

\* C20 as written: parallel_apply never uses more threads than the least of
\* the available parallelism, 16 and the number of items.
PoolWithinDefaultBound ==
    ThreadsUsed <= Min(Min(available, MAX_THREADS), Len(items))

\* The bound on the threads of a call: the least of the available
\* parallelism, 16 and the number of items when no thread count (or 0) is
\* asked for, the least of the thread count asked for and the number of
\* items otherwise.
PoolBound ==
    IF IsSome(num_threads) /\ Unwrap(num_threads) > 0
    THEN Min(Unwrap(num_threads), Len(items))
    ELSE Min(Min(available, MAX_THREADS), Len(items))

\* C20 as amended: neither the thread count decided on nor the number of
\* threads spawned exceeds the bound of the call.
PoolWithinBound ==
    /\ n_threads <= PoolBound
    /\ ThreadsUsed <= PoolBound

\* parallel_apply returned after using, as asked, more threads than the
\* available parallelism.
PoolExceededParallelism ==
    /\ pc = "applied"
    /\ IsSome(num_threads)
    /\ Unwrap(num_threads) > 0
    /\ ThreadsUsed > available

\* ------------------------------------------------------------------ properties of the CLI

\* The positions of the tabs of a line
TabsOf(line) == {i \in 1..Len(line) : line[i] = Tab}

\* The n-th tab of a line, or the position after its end
RECURSIVE NthTab(_, _)
NthTab(line, n) ==
    LET from == IF n = 1 THEN 0 ELSE NthTab(line, n - 1)
        later == {i \in TabsOf(line) : i > from}
    IN  IF later = {} THEN Len(line) + 1
        ELSE CHOOSE i \in later : \A j \in later : i <= j

\* The n-th tab-separated column of a line
Column(line, n) ==
    SubSeq(line, (IF n = 1 THEN 0 ELSE NthTab(line, n - 1)) + 1, NthTab(line, n) - 1)

\* A string without the spaces around it
Stripped(s) ==
    LET kept == {i \in 1..Len(s) : ~IsWhitespace(s[i])}
    IN  IF kept = {} THEN << >>
        ELSE SubSeq(s, CHOOSE i \in kept : \A j \in kept : i <= j,
                       CHOOSE i \in kept : \A j \in kept : i >= j)

\* C24 as written: of a line with two columns the first is the keyword and
\* the second the pattern; a line with one column gives that column as the
\* pattern.
FirstColumnIsKeyword ==
    \A i \in 1..Len(elems) :
        IF TabsOf(file_lines[i]) # {}
        THEN /\ elems[i][1] = Stripped(Column(file_lines[i], 2))
             /\ elems[i][2] = Some(Stripped(Column(file_lines[i], 1)))
        ELSE elems[i][1] = Stripped(file_lines[i])

\* C24 as amended: the entry read from a line has the first column, without
\* the spaces around it, as its pattern; its keyword is the second column,
\* likewise stripped, when the line has a tab, and is absent otherwise.
FirstColumnIsPattern ==
    /\ Len(elems) = line_no
    /\ \A i \in 1..Len(elems) :
          /\ elems[i][1] = Stripped(Column(file_lines[i], 1))
          /\ elems[i][2] = IF TabsOf(file_lines[i]) # {}
                           THEN Some(Stripped(Column(file_lines[i], 2)))
                           ELSE None
    /\ pc = "dictionary_read" => dictionary = elems

\* A file was read that has a line of two different columns and a line of
\* one column.
TwoColumnLineRead ==
    /\ pc = "dictionary_read"
    /\ \E i \in 1..Len(dictionary) :
          /\ IsSome(dictionary[i][2])
          /\ Len(dictionary[i][1]) > 0
          /\ Len(Unwrap(dictionary[i][2])) > 0
          /\ Unwrap(dictionary[i][2]) # dictionary[i][1]
    /\ \E i \in 1..Len(dictionary) :
          /\ ~IsSome(dictionary[i][2])
          /\ Len(dictionary[i][1]) > 0

\* ------------------------------------------------------------------ termination

\* C31: create_prefix_tree, called with a valid dictionary, eventually
\* returns the tree; find_text_matches, once called, eventually returns with
\* idx equal to the character count of the text; and each of its iterations
\* consumes exactly one character.
BuildAndScanTerminate ==
    /\ (pc = "create" /\ ValidDictionary(dictionary, opts)) ~> (pc = "built")
    /\ (pc = "scanning") ~> (pc = "returned" /\ found = "Ok" /\ idx = Len(text))
    /\ [][pc = "scanning" /\ idx' # idx => idx' = idx + 1]_vars

\* find_text_matches returned after a text of the greatest length, on a tree
\* with a failure link to a node other than the root.
LongScanReturned ==
    /\ pc = "returned"
    /\ idx = Len(text)
    /\ Len(text) = MaxTextLen
    /\ \E i \in 2..Len(nodes) :
          IsSome(nodes[i].fail_to) /\ nodes[i].fail_to # Some(RootNodeId)

\* ------------------------------------------------------------------ properties of the RingBuffer

\* What get_item(index) has to return after the pushes made so far
RetainedItem(index) ==
    LET n == Len(pushed_items)
        len == IF n < ring_buffer.capacity THEN n ELSE ring_buffer.capacity
    IN  IF index < len
        THEN [item |-> Some(pushed_items[n - len + index + 1]), result |-> "Ok"]
        ELSE [item |-> None, result |-> "panic"]

\* After n pushes onto a buffer of capacity c >= 1, len() is min(n, c) and
\* get_item(i) is the (n - len() + i)-th item pushed, a panic for i >= len().
RingBufferRetainsLastItems ==
    ring_buffer.capacity >= 1
    => /\ RingBufferLen(ring_buffer)
             = IF Len(pushed_items) < ring_buffer.capacity
               THEN Len(pushed_items) ELSE ring_buffer.capacity
       /\ \A i \in 0..(MaxCapacity + 1) :
             RingBufferGetItem(ring_buffer, i) = RetainedItem(i)

\* A call of get_item returns what the buffer retains at its index and
\* leaves the buffer as it is, whether it returns or panics.
GetItemReadsOnly ==
    (got' # got /\ ring_buffer.capacity >= 1)
    => /\ IsSome(got')
       /\ [item |-> Unwrap(got').item, result |-> Unwrap(got').result]
             = RetainedItem(Unwrap(got').index)
       /\ ring_buffer' = ring_buffer
       /\ pushed_items' = pushed_items

\* C35: for a RingBuffer of capacity c >= 1, after n pushes len() is
\* min(n, c); get_item(i) with i < len() returns the (n - len() + i)-th item
\* pushed, index 0 being the oldest item retained and len() - 1 the latest;
\* get_item(i) with i >= len() panics; and get_item changes nothing.
RingBufferKeepsLatest ==
    /\ []RingBufferRetainsLastItems
    /\ [][GetItemReadsOnly]_vars

\* get_item returned an item other than the oldest from a buffer of capacity
\* two or more that has wrapped around more than once and retains pairwise
\* distinct items.
WrappedBufferRead ==
    /\ pc = "ring_buffer"
    /\ ring_buffer.capacity >= 2
    /\ Len(pushed_items) > 2 * ring_buffer.capacity
    /\ \A i, j \in 1..Len(ring_buffer.values) :
          i # j => ring_buffer.values[i] # ring_buffer.values[j]
    /\ IsSome(got)
    /\ Unwrap(got).index >= 1
    /\ Unwrap(got).result = "Ok"
    /\ Unwrap(got).item = RingBufferGetItem(ring_buffer, Unwrap(got).index).item

\* ------------------------------------------------------------------ properties of the scanner's buffer

\* A RingBuffer of the given capacity after the items were pushed in order
RECURSIVE RingBufferFed(_, _)
RingBufferFed(capacity, pushes) ==
    IF Len(pushes) = 0 THEN RingBufferNew(capacity)
    ELSE RingBufferPush(RingBufferFed(capacity, SubSeq(pushes, 1, Len(pushes) - 1)),
                        pushes[Len(pushes)]).buffer

\* The character count of the longest pattern the tree stores
LongestStoredPattern ==
    LET lens == {Len(Unwrap(nodes[i].value)) : i \in ValueNodes(nodes)}
    IN  IF lens = {} THEN 0 ELSE CHOOSE l \in lens : \A k \in lens : k <= l

\* C36: during a scan max_pattern_len is the character count of the longest
\* stored pattern; with check_bounds, once idx characters are consumed the
\* scanner's buffer holds the last min(idx, max_pattern_len + 1) characters
\* of the text in order, never more than max_pattern_len + 1, the contents of
\* a RingBuffer of capacity max_pattern_len + 1 fed the same characters;
\* without check_bounds the buffer stays empty.
ScannerBufferIsRingBuffer ==
    pc \in {"scanning", "returned"}
    => /\ max_pattern_len = LongestStoredPattern
       /\ ~opts.check_bounds => char_buffer = << >>
       /\ opts.check_bounds
          => LET kept == IF idx < max_pattern_len + 1 THEN idx ELSE max_pattern_len + 1
                 fed == RingBufferFed(max_pattern_len + 1, SubSeq(text, 1, idx))
             IN  /\ char_buffer = SubSeq(text, idx - kept + 1, idx)
                 /\ Len(char_buffer) <= max_pattern_len + 1
                 /\ Len(char_buffer) = RingBufferLen(fed)
                 /\ \A i \in 0..(Len(char_buffer) - 1) :
                       RingBufferGetItem(fed, i)
                          = [item |-> Some(char_buffer[i + 1]), result |-> "Ok"]

\* A scan with check_bounds returned after its buffer, full, had dropped a
\* character.
BufferDroppedCharacter ==
    /\ pc = "returned"
    /\ found = "Ok"
    /\ opts.check_bounds
    /\ max_pattern_len >= 1
    /\ idx > max_pattern_len + 1
    /\ Len(char_buffer) = max_pattern_len + 1

\* The nodes the match loop visits from the scanner's current node
MatchWalk == WalkFrom(curr_id, DictChain(nodes, curr_id))

\* C37: the match loop never fails on the left bound.  For every candidate
\* match m of the loop, that of the current node and the shorter ones reached
\* through dct_to, the pattern is no longer than the text consumed, so that
\* start does not underflow; and when is_word_bounded is evaluated with
\* m.start > 0, the buffer has at least pattern_len + 1 characters and
\* buffer[buffer.len() - pattern_len - 1] is the character of the text at
\* index m.start - 1.
LeftBoundLookupIsExact ==
    pc \in {"scanning", "returned", "scan_failed"}
    => /\ pc # "scan_failed"
       /\ idx >= 1
          => \A k \in 1..Len(MatchWalk) :
                LET vk == ValueKeyword(nodes[MatchWalk[k] + 1])
                IN  IsSome(vk)
                    => LET pat_len == Len(Unwrap(vk)[1])
                           start == idx - pat_len
                       IN  /\ pat_len <= idx
                           /\ (opts.check_bounds /\ start > 0)
                              => /\ Len(char_buffer) >= pat_len + 1
                                 /\ char_buffer[(Len(char_buffer) - pat_len - 1) + 1]
                                       = text[(start - 1) + 1]

\* With check_bounds and a full buffer the match loop had two candidates,
\* the second reached through dct_to, both starting after the first
\* character of the text.
TwoCandidatesLookedLeft ==
    /\ pc \in {"scanning", "returned"}
    /\ opts.check_bounds
    /\ Len(char_buffer) = max_pattern_len + 1
    /\ Len(MatchWalk) >= 2
    /\ \A k \in 1..Len(MatchWalk) :
          /\ IsSome(ValueKeyword(nodes[MatchWalk[k] + 1]))
          /\ idx - Len(Unwrap(nodes[MatchWalk[k] + 1].value)) > 0

====
